---- MODULE Spec2Model ----
(***************************************************************************)
(* Model of the market-research-bot repository:                            *)
(*   - src/multi_country_dropshipping.py  EnhancedDropshippingBot          *)
(*         (margin calculator, opportunity scorer, product pipeline,       *)
(*          append of rows to the Products sheet)                          *)
(*   - src/streamlit_app.py  the review dashboard                          *)
(*         (load of the sheet, display loop, status / notes updates)       *)
(*   - src/market_research_bot.py  MarketResearchBot.scrape_reddit         *)
(*         (deduplication by URL)                                          *)
(*                                                                         *)
(* Units.  Python floats are modelled by exact integers: money in cents,   *)
(* percentages in hundredths of a percent.  round(x, 2) is modelled by     *)
(* rounding to the nearest integer of these units; at an exact tie the     *)
(* binary float decides, so both neighbours are possible outcomes.         *)
(***************************************************************************)
EXTENDS Integers, Sequences, FiniteSets, TLC

VARIABLES
    \* --- the Products sheet and the dashboard sessions -------------------
    sheet,            \* rows 2.. of the Products sheet (row 1 is the header)
    view,             \* per reviewer: the (idx, row) of the display loop, from its last load
    last_call,        \* ledger history: the latest update_product_status call
    \* --- MarketResearchBot.scrape_reddit, lines 55-103 -------------------
    results,          \* the records collected by the scrape loops
    seen_urls,
    unique_results,
    pos,              \* position of the `for item in results` loop
    returned,         \* the value returned by scrape_reddit
    \* --- score_product_opportunity call -----------------------------------
    product_data,
    overall_score,
    \* --- calculate_margins call -------------------------------------------
    amazon_price,
    supplier_price,
    margins,
    \* --- _guess_category call ---------------------------------------------
    product_name,
    category,
    \* --- a run of EnhancedDropshippingBot, step by step --------------------
    env,              \* the environment variables that are set
    articles,         \* the result of find_trend_articles
    article_index,    \* position of the `for article in articles[:10]` loop
    all_products,
    console,          \* what the run has printed, as a set of messages
    \* --- a run of MarketResearchBot or DropshippingTrendBot ----------------
    bot,              \* the class whose __main__ runs
    docs_service,     \* self.docs_service is set (not None)
    all_data,
    analysis,
    doc_id,
    \* --- the export of the dashboard and a call of update_product_status ---
    csv,              \* the rows of the exported table
    update_args,      \* the arguments of the call
    update_result,    \* the value the call returned
    \* --- the searches for a product name ----------------------------------
    amazon_response,  \* what the search request of search_amazon_product gave
    supplier_response,
    amazon_data,
    supplier_data,
    \* --- a keyword-filtered extractor of MarketResearchBot -----------------
    extractor,        \* the scrape_* method that runs
    feed,             \* the posts, stories or articles it was given
    \* --- the sorted listings ----------------------------------------------
    data_summary,     \* the argument of create_google_doc
    sorted_data,
    filtered_df,      \* the dashboard's filtered_df, as (label, row) pairs
    \* --- control position of the routine a specification exercises ------
    pc

vars == << sheet, view, last_call, results, seen_urls, unique_results, pos,
           returned, product_data, overall_score, amazon_price, supplier_price,
           margins, product_name, category, env, articles, article_index,
           all_products, console, bot, docs_service, all_data, analysis,
           doc_id, csv, update_args, update_result, amazon_response,
           supplier_response, amazon_data, supplier_data, extractor, feed,
           data_summary, sorted_data, filtered_df, pc >>

storeVars  == << sheet, view, last_call >>
dedupVars  == << results, seen_urls, unique_results, pos, returned >>
scoreVars  == << product_data, overall_score >>
marginVars == << amazon_price, supplier_price, margins >>
categoryVars == << product_name, category >>

\* the variables of the routines written further down
runVars == << env, articles, article_index, all_products, console >>
reportVars == << bot, docs_service, all_data, analysis, doc_id >>
exportVars == << csv >>
updateVars == << update_args, update_result >>
searchVars == << amazon_response, supplier_response, amazon_data, supplier_data >>
filterVars == << extractor, feed >>
rankVars == << data_summary, sorted_data, filtered_df >>
harnessVars == << exportVars, updateVars, searchVars, filterVars, rankVars >>
restVars == << categoryVars, runVars, reportVars, harnessVars >>

\* Values a variable holds before the code has assigned it
NoView    == [ loaded |-> FALSE ]
NoCall    == [ made |-> FALSE ]
NoMargins == [ profit |-> 0, margin_percent |-> 0, total_cost |-> 0,
               recommended_price |-> 0 ]

(***************************************************************************)
(* Bounds of the model.                                                    *)
(***************************************************************************)
MaxLen == 3          \* longest list of scraped records given to the dedup loop
MaxRows == 2         \* most rows the Products sheet holds
MaxBatch == 2        \* most product names researched in one bot run
MaxLedgerRows == 1   \* rows of the sheet in the ledger-history specification
MaxWords == 2        \* most pieces a product name given to _guess_category is built from
MaxArticles == 2     \* most search results find_trend_articles collects
MaxData == 2         \* most data points the scrapers of a report run collect
MaxExportRows == 2   \* most rows of the sheet a script run exports from
MaxRowNumber == 2    \* largest row_number given to a call of update_product_status
MaxPieces == 2       \* most pieces the snippet of a search result is built from
MaxOrganic == 2      \* most organic results a search request answers with
MaxTextPieces == 2   \* most pieces the title of a feed item is built from
MaxFeed == 2         \* most items of the feed an extractor is given
MaxRanked == 2       \* most records or rows given to a ranking

(***************************************************************************)
(* Units                                                                   *)
(***************************************************************************)
Usd(d) == d * 100        \* dollars -> cents
Pct(p) == p * 100        \* percent -> hundredths of a percent

Min(a, b) == IF a <= b THEN a ELSE b
Abs(a) == IF a >= 0 THEN a ELSE -a

SeqsUpTo(S, n) == UNION { [ 1..k -> S ] : k \in 0..n }

\* seq[:n]
Take(seq, n) == SubSeq(seq, 1, Min(n, Len(seq)))

\* The floats that are no amounts.  float() of a price text beyond the range
\* of a float is inf (line 191), inf - inf is nan (line 262).  They stand
\* outside every amount of the model; every >= and every > of the code is
\* false of nan, which is below every amount, and Less is the < of floats.
Infinity    == 2000000000
NegInfinity == -2000000000
NaN         == -2000000001
FloatDigits == 309
Less(x, y) == x # NaN /\ y # NaN /\ x < y

\* The integers nearest to n / d (d > 0): one of them, or two at an exact tie.
RoundDiv(n, d) ==
    LET q == n \div d
        r == n - q * d
    IN  IF 2 * r < d THEN {q}
        ELSE IF 2 * r > d THEN {q + 1}
        ELSE {q, q + 1}

\* Python's int(x) of a value in hundredths: truncation toward zero.
IntOf(x) == IF x >= 0 THEN x \div 100 ELSE -((-x) \div 100)

(***************************************************************************)
(* Text.  A Python str is modelled as the sequence of its characters, so   *)
(* that lower(), `in`, replace() and slicing are computed on it.           *)
(***************************************************************************)
UpperCase == << "A", "B", "C", "D", "E", "F", "G", "H", "I", "J", "K", "L", "M", "N", "O", "P", "Q", "R", "S", "T", "U", "V", "W", "X", "Y", "Z" >>
LowerCase == << "a", "b", "c", "d", "e", "f", "g", "h", "i", "j", "k", "l", "m", "n", "o", "p", "q", "r", "s", "t", "u", "v", "w", "x", "y", "z" >>

LowerChar(c) ==
    IF \E i \in 1..Len(UpperCase) : UpperCase[i] = c
    THEN LowerCase[CHOOSE i \in 1..Len(UpperCase) : UpperCase[i] = c]
    ELSE c

\* str.lower()
lower(str) == [ i \in 1..Len(str) |-> LowerChar(str[i]) ]

\* `sub in str`
Contains(sub, str) ==
    \E i \in 0..(Len(str) - Len(sub)) : SubSeq(str, i + 1, i + Len(sub)) = sub

\* str(n) of a natural number
Digits == << "0", "1", "2", "3", "4", "5", "6", "7", "8", "9" >>
RECURSIVE NatStr(_)
NatStr(n) == IF n < 10 THEN << Digits[n + 1] >>
             ELSE Append(NatStr(n \div 10), Digits[(n % 10) + 1])

\* str(x) of a non-negative float holding an amount of whole cents: "60.0",
\* "19.5", "19.99", "0.05"
FloatStr(cents) ==
    LET whole == cents \div 100
        frac  == cents % 100
    IN  NatStr(whole) \o << "." >> \o
        (IF frac % 10 = 0 THEN NatStr(frac \div 10)
         ELSE << Digits[(frac \div 10) + 1], Digits[(frac % 10) + 1] >>)

\* str.replace(old, new), old not empty
RECURSIVE replace(_, _, _)
replace(str, old, new) ==
    IF Len(str) < Len(old) THEN str
    ELSE IF SubSeq(str, 1, Len(old)) = old
         THEN new \o replace(SubSeq(str, Len(old) + 1, Len(str)), old, new)
         ELSE << Head(str) >> \o replace(Tail(str), old, new)

\* the concatenation of a sequence of strings
RECURSIVE Concat(_)
Concat(parts) == IF parts = <<>> THEN <<>> ELSE Head(parts) \o Concat(Tail(parts))

(***************************************************************************)
(* EnhancedDropshippingBot.calculate_margins                               *)
(* Intermediate values are kept in 1/100 of a cent, where 3% of a price    *)
(* in cents is exact.  Returns the set of results round() can produce.     *)
(***************************************************************************)
shipping_cost == Usd(5)

calculate_margins_norounding(a, s) ==
    LET total4  == 100 * (s + shipping_cost) + 3 * a
        profit4 == 100 * a - total4
    IN  { [ profit            |-> profit4 \div 100,
            margin_percent    |-> IF a > 0 THEN (100 * profit4) \div a ELSE 0,
            total_cost        |-> total4 \div 100,
            recommended_price |-> (9 * a) \div 10 ] }

\* the division guarded by a denominator of at least one cent
calculate_margins_clamped(a, s) ==
    LET total4  == 100 * (s + shipping_cost) + 3 * a
        profit4 == 100 * a - total4
    IN  { [ profit |-> p, margin_percent |-> m, total_cost |-> t,
            recommended_price |-> rp ] :
            p  \in RoundDiv(profit4, 100),
            m  \in RoundDiv(100 * profit4, IF a > 1 THEN a ELSE 1),
            t  \in RoundDiv(total4, 100),
            rp \in RoundDiv(9 * a, 10) }

calculate_margins(a, s) ==
    IF a = Infinity
    THEN \* the fee and the total cost are inf, the profit inf - inf
         { [ profit |-> NaN, margin_percent |-> NaN, total_cost |-> Infinity,
             recommended_price |-> Infinity ] }
    ELSE IF s = Infinity
    THEN { [ profit |-> NegInfinity,
             margin_percent |-> IF a > 0 THEN NegInfinity ELSE 0,
             total_cost |-> Infinity, recommended_price |-> rp ] :
             rp \in RoundDiv(9 * a, 10) }
    ELSE
    LET transaction_fee4 == 3 * a                       \* amazon_price * 0.03
        total4  == 100 * (s + shipping_cost) + transaction_fee4
        profit4 == 100 * a - total4
    IN  { [ profit |-> p, margin_percent |-> m, total_cost |-> t,
            recommended_price |-> rp ] :
            p  \in RoundDiv(profit4, 100),
            m  \in (IF a > 0 THEN RoundDiv(100 * profit4, a) ELSE {0}),
            t  \in RoundDiv(total4, 100),
            rp \in RoundDiv(9 * a, 10) }

(***************************************************************************)
(* EnhancedDropshippingBot.score_product_opportunity                       *)
(***************************************************************************)
\* dict.get(key, default): a missing key gives the default.  A dict is a
\* function whose domain is the set of keys it holds.
Get(d, key, default) == IF key \in DOMAIN d THEN d[key] ELSE default

score_product_opportunity_strict(pd) ==
    LET margin == Get(pd, "margin_percent", 0)
        profit == Get(pd, "profit", 0)
        price  == Get(pd, "amazon_price", 0)
        s1 == IF margin > Pct(50) THEN 40
              ELSE IF margin > Pct(40) THEN 30
              ELSE IF margin > Pct(30) THEN 20
              ELSE IF margin > Pct(20) THEN 10 ELSE 0
        s2 == IF profit >= Usd(30) THEN 30
              ELSE IF profit >= Usd(20) THEN 20
              ELSE IF profit >= Usd(10) THEN 10 ELSE 0
        s3 == IF Usd(20) <= price /\ price <= Usd(80) THEN 30
              ELSE IF Usd(10) <= price /\ price <= Usd(100) THEN 20
              ELSE IF price > 0 THEN 10 ELSE 0
        score == s1 + s2 + s3
    IN  IF score < 100 THEN score ELSE 100

score_product_opportunity_penalty(pd) ==
    LET margin == Get(pd, "margin_percent", 0)
        profit == Get(pd, "profit", 0)
        price  == Get(pd, "amazon_price", 0)
        s1 == IF margin >= Pct(50) THEN 40
              ELSE IF margin >= Pct(40) THEN 30
              ELSE IF margin >= Pct(30) THEN 20
              ELSE IF margin >= Pct(20) THEN 10
              ELSE IF margin < 0 THEN -10 ELSE 0
        s2 == IF profit >= Usd(30) THEN 30
              ELSE IF profit >= Usd(20) THEN 20
              ELSE IF profit >= Usd(10) THEN 10 ELSE 0
        s3 == IF Usd(20) <= price /\ price <= Usd(80) THEN 30
              ELSE IF Usd(10) <= price /\ price <= Usd(100) THEN 20
              ELSE IF price > 0 THEN 10 ELSE 0
        score == s1 + s2 + s3
    IN  IF score < 100 THEN score ELSE 100

score_product_opportunity_swapped(pd) ==
    LET margin == Get(pd, "margin_percent", 0)
        profit == Get(pd, "profit", 0)
        price  == Get(pd, "amazon_price", 0)
        s1 == IF margin >= Pct(50) THEN 30
              ELSE IF margin >= Pct(40) THEN 40
              ELSE IF margin >= Pct(30) THEN 20
              ELSE IF margin >= Pct(20) THEN 10 ELSE 0
        s2 == IF profit >= Usd(30) THEN 30
              ELSE IF profit >= Usd(20) THEN 20
              ELSE IF profit >= Usd(10) THEN 10 ELSE 0
        s3 == IF Usd(20) <= price /\ price <= Usd(80) THEN 30
              ELSE IF Usd(10) <= price /\ price <= Usd(100) THEN 20
              ELSE IF price > 0 THEN 10 ELSE 0
        score == s1 + s2 + s3
    IN  IF score < 100 THEN score ELSE 100

score_product_opportunity(pd) ==
    LET margin == Get(pd, "margin_percent", 0)
        profit == Get(pd, "profit", 0)
        price  == Get(pd, "amazon_price", 0)
        \* Margin score (max 40 points)
        s1 == IF margin >= Pct(50) THEN 40
              ELSE IF margin >= Pct(40) THEN 30
              ELSE IF margin >= Pct(30) THEN 20
              ELSE IF margin >= Pct(20) THEN 10 ELSE 0
        \* Profit amount score (max 30 points)
        s2 == IF profit >= Usd(30) THEN 30
              ELSE IF profit >= Usd(20) THEN 20
              ELSE IF profit >= Usd(10) THEN 10 ELSE 0
        \* Price point score (max 30 points)
        s3 == IF Usd(20) <= price /\ price <= Usd(80) THEN 30
              ELSE IF Usd(10) <= price /\ price <= Usd(100) THEN 20
              ELSE IF price > 0 THEN 10 ELSE 0
        score == s1 + s2 + s3
    IN  IF score < 100 THEN score ELSE 100              \* min(score, 100)

(***************************************************************************)
(* EnhancedDropshippingBot._guess_category                                 *)
(***************************************************************************)
PetWords ==
    { << "d", "o", "g" >>,
      << "c", "a", "t" >>,
      << "p", "e", "t" >>,
      << "c", "o", "l", "l", "a", "r" >>,
      << "l", "e", "a", "s", "h" >> }

KitchenWords ==
    { << "k", "i", "t", "c", "h", "e", "n" >>,
      << "c", "o", "o", "k" >>,
      << "f", "o", "o", "d" >>,
      << "b", "o", "w", "l" >> }

HomeWords ==
    { << "h", "o", "m", "e" >>,
      << "d", "e", "c", "o", "r" >>,
      << "f", "u", "r", "n", "i", "t", "u", "r", "e" >>,
      << "l", "a", "m", "p" >> }

FitnessWords ==
    { << "f", "i", "t", "n", "e", "s", "s" >>,
      << "y", "o", "g", "a" >>,
      << "e", "x", "e", "r", "c", "i", "s", "e" >>,
      << "g", "y", "m" >> }

BabyWords ==
    { << "b", "a", "b", "y" >>,
      << "i", "n", "f", "a", "n", "t" >>,
      << "t", "o", "d", "d", "l", "e", "r" >> }

\* any(word in name for word in words)
AnyWordIn(words, name) == \E word \in words : Contains(word, name)

\* the chain with the kitchen test ahead of the pet test
_guess_category_kitchen_first(name) ==
    LET name_lower == lower(name)
    IN  IF AnyWordIn(KitchenWords, name_lower) THEN "Kitchen"
        ELSE IF AnyWordIn(PetWords, name_lower) THEN "Pet Supplies"
        ELSE IF AnyWordIn(HomeWords, name_lower) THEN "Home & Garden"
        ELSE IF AnyWordIn(FitnessWords, name_lower) THEN "Fitness"
        ELSE IF AnyWordIn(BabyWords, name_lower) THEN "Baby Products"
        ELSE "Other"

_guess_category(name) ==
    LET name_lower == lower(name)
    IN  IF AnyWordIn(PetWords, name_lower) THEN "Pet Supplies"
        ELSE IF AnyWordIn(KitchenWords, name_lower) THEN "Kitchen"
        ELSE IF AnyWordIn(HomeWords, name_lower) THEN "Home & Garden"
        ELSE IF AnyWordIn(FitnessWords, name_lower) THEN "Fitness"
        ELSE IF AnyWordIn(BabyWords, name_lower) THEN "Baby Products"
        ELSE "Other"

(***************************************************************************)
(* EnhancedDropshippingBot.search_amazon_product and                       *)
(* search_aliexpress_supplier: the price patterns and re.search.           *)
(*                                                                         *)
(* Each pattern is a literal text, optional white space, a second literal  *)
(* text, the group (digits, an optional point, digits), optional white     *)
(* space and a closing literal text; any of the literal texts may be       *)
(* empty.                                                                  *)
(***************************************************************************)
SetMin(S) == CHOOSE x \in S : \A y \in S : x <= y
SetMax(S) == CHOOSE x \in S : \A y \in S : x >= y

IsDigit(c) == \E i \in 1..Len(Digits) : Digits[i] = c       \* \d
IsSpace(c) == c \in { " ", "\t", "\n" }                     \* \s

DigitValue(c) == (CHOOSE i \in 1..Len(Digits) : Digits[i] = c) - 1

\* int(text) of a text of digits ('' counts as 0)
RECURSIVE NatOf(_)
NatOf(ds) == IF ds = <<>> THEN 0
             ELSE 10 * NatOf(SubSeq(ds, 1, Len(ds) - 1)) + DigitValue(ds[Len(ds)])

\* float(text) of a text matched by \d+\.?\d*, in cents.  The texts of the
\* model hold at most two decimals, which a whole number of cents represents,
\* or more digits than the largest float has, which gives inf.
float(text) ==
    LET dots  == { i \in 1..Len(text) : text[i] = "." }
        dot   == IF dots = {} THEN Len(text) + 1 ELSE CHOOSE i \in dots : TRUE
        whole == SubSeq(text, 1, dot - 1)
        frac  == SubSeq(text, dot + 1, Len(text))
        zeros == { i \in 0..Len(whole) : \A k \in 1..i : whole[k] = "0" }
    IN  IF Len(whole) - SetMax(zeros) > FloatDigits THEN Infinity
        ELSE 100 * NatOf(whole)
               + (IF Len(frac) = 0 THEN 0
                  ELSE IF Len(frac) = 1 THEN 10 * NatOf(frac)
                  ELSE NatOf(SubSeq(frac, 1, 2)))

DigitsOnly(str, a, b) == \A k \in a..b : IsDigit(str[k])
SpacesOnly(str, a, b) == \A k \in a..b : IsSpace(str[k])

\* the literal text sits in str at position i
LiteralAt(lit, str, i) ==
    /\ i + Len(lit) - 1 <= Len(str)
    /\ SubSeq(str, i, i + Len(lit) - 1) = lit

\* the end of the longest run of digits that starts at g (g - 1: no digit)
DigitRunEnd(str, g) ==
    CHOOSE e \in (g - 1)..Len(str) :
        /\ DigitsOnly(str, g, e)
        /\ e = Len(str) \/ ~IsDigit(str[e + 1])

\* the position after the longest run of white space that starts at k
SkipSpaces(str, k) ==
    CHOOSE j \in k..(Len(str) + 1) :
        /\ SpacesOnly(str, k, j - 1)
        /\ j = Len(str) + 1 \/ ~IsSpace(str[j])

\* the ends e of the texts str[g..e] that \d+\.?\d* matches
NumberEnds(str, g) ==
    LET a == DigitRunEnd(str, g)
    IN  IF a < g THEN {}
        ELSE (g..a) \cup
             (IF a < Len(str) /\ str[a + 1] = "."
              THEN (a + 1)..DigitRunEnd(str, a + 2) ELSE {})

Pattern(lead, lead_ws, lead2, tail_ws, tail) ==
    [ lead |-> lead, lead_ws |-> lead_ws, lead2 |-> lead2,
      tail_ws |-> tail_ws, tail |-> tail ]

NoMatch == [ found |-> FALSE ]

\* The match of the pattern that starts at position i, if there is one.  The
\* quantifiers are greedy: the white space is taken whole (what follows it is
\* no white space) and the group is the longest the rest of the pattern allows.
MatchAt(p, str, i) ==
    IF ~LiteralAt(p.lead, str, i) THEN NoMatch
    ELSE LET j == IF p.lead_ws THEN SkipSpaces(str, i + Len(p.lead))
                  ELSE i + Len(p.lead)
         IN  IF ~LiteralAt(p.lead2, str, j) THEN NoMatch
             ELSE LET g    == j + Len(p.lead2)
                      ends == { e \in NumberEnds(str, g) :
                                  LiteralAt(p.tail, str,
                                            IF p.tail_ws THEN SkipSpaces(str, e + 1)
                                            ELSE e + 1) }
                  IN  IF ends = {} THEN NoMatch
                      ELSE [ found |-> TRUE, group |-> SubSeq(str, g, SetMax(ends)) ]

\* re.search(pattern, str): the match at the leftmost position that has one
re_search(p, str) ==
    LET starts == { i \in 1..Len(str) : MatchAt(p, str, i).found }
    IN  IF starts = {} THEN NoMatch ELSE MatchAt(p, str, SetMin(starts))

\* lines 181-186
amazon_price_patterns ==
    << Pattern(<< "$" >>, FALSE, << >>, FALSE, << >>),                  \* \$(\d+\.?\d*)
       Pattern(<< >>, FALSE, << >>, TRUE, << "U", "S", "D" >>),         \* (\d+\.?\d*)\s*USD
       Pattern(<< "A", "E", "D" >>, TRUE, << >>, FALSE, << >>),         \* AED\s*(\d+\.?\d*)
       Pattern(<< "S", "A", "R" >>, TRUE, << >>, FALSE, << >>) >>       \* SAR\s*(\d+\.?\d*)

\* lines 233-237
aliexpress_price_patterns ==
    << Pattern(<< "$" >>, FALSE, << >>, FALSE, << >>),                  \* \$(\d+\.?\d*)
       Pattern(<< >>, FALSE, << >>, TRUE, << "U", "S", "D" >>),         \* (\d+\.?\d*)\s*USD
       Pattern(<< "U", "S" >>, TRUE, << "$" >>, FALSE, << >>) >>        \* US\s*\$(\d+\.?\d*)

\* the patterns with the second ahead of the first
first_match_second_first(patterns, text) ==
    LET first  == re_search(patterns[2], text)
        second == re_search(patterns[1], text)
    IN  IF first.found THEN first
        ELSE IF second.found THEN second
        ELSE IF Len(patterns) > 2 /\ re_search(patterns[3], text).found
             THEN re_search(patterns[3], text)
        ELSE IF Len(patterns) > 3 THEN re_search(patterns[4], text)
        ELSE NoMatch

\* `for pattern in price_patterns: match = re.search(...); if match: ... break`
\* (lines 189-193 and 239-241): the first match in the order of the list
RECURSIVE first_match(_, _)
first_match(patterns, text) ==
    IF patterns = <<>> THEN NoMatch
    ELSE LET match == re_search(Head(patterns), text)
         IN  IF match.found THEN match
             ELSE first_match(Tail(patterns), text)

\* str.strip()
RECURSIVE lstrip(_)
lstrip(str) == IF str # <<>> /\ IsSpace(Head(str)) THEN lstrip(Tail(str)) ELSE str
RECURSIVE rstrip(_)
rstrip(str) == IF str # <<>> /\ IsSpace(str[Len(str)])
               THEN rstrip(SubSeq(str, 1, Len(str) - 1)) ELSE str
strip(str) == rstrip(lstrip(str))

\* str.split(sep)[0] for a separator of one character
BeforeFirst(str, sep) ==
    LET at == { i \in 1..Len(str) : str[i] = sep }
    IN  IF at = {} THEN str ELSE SubSeq(str, 1, SetMin(at) - 1)

NameLimit == 100

AmazonDomain == << "a", "m", "a", "z", "o", "n", ".", "c", "o", "m" >>
DpPath == << "/", "d", "p", "/" >>
AliexpressDomain == << "a", "l", "i", "e", "x", "p", "r", "e", "s", "s", ".", "c", "o", "m" >>

NoListing  == [ found |-> FALSE ]
NoSupplier == [ found |-> FALSE ]
Listing(name, price) == [ found |-> TRUE, product_name |-> name, amazon_price |-> price ]

\* snippet + ' ' + title (lines 190 and 240)
PriceText(item) == item.snippet \o << " " >> \o item.title

\* The loop over data.get('organic', []) of search_amazon_product (lines
\* 173-204) for the country 'us'.  A price of 0.0 is falsy (line 195): the
\* item is passed over.
RECURSIVE amazon_listing(_)
amazon_listing(organic) ==
    IF organic = <<>> THEN NoListing
    ELSE LET item  == Head(organic)
             match == first_match(amazon_price_patterns, PriceText(item))
         IN  IF /\ Contains(AmazonDomain, item.link)
                /\ Contains(DpPath, item.link)
                /\ match.found
                /\ float(match.group) # 0
             THEN Listing(Take(strip(BeforeFirst(item.title, "|")), NameLimit),
                          float(match.group))
             ELSE amazon_listing(Tail(organic))

\* What the search request gave: it failed (the request or response.json()
\* raised), or it answered with a list of organic results
NoResponse == [ ok |-> FALSE ]
Response(organic) == [ ok |-> TRUE, organic |-> organic ]

\* search_amazon_product (lines 148-208)
search_amazon_product(serper_key, response) ==
    IF ~serper_key THEN NoListing
    ELSE IF ~response.ok THEN NoListing                 \* except: return None
    ELSE amazon_listing(response.organic)

\* The loop of search_aliexpress_supplier (lines 226-249): the first item
\* with an AliExpress link and a price
RECURSIVE aliexpress_supplier(_)
aliexpress_supplier(organic) ==
    IF organic = <<>> THEN NoSupplier
    ELSE LET item  == Head(organic)
             match == first_match(aliexpress_price_patterns, PriceText(item))
         IN  IF Contains(AliexpressDomain, item.link) /\ match.found
             THEN [ found |-> TRUE, supplier_price |-> float(match.group),
                    supplier_url |-> item.link ]
             ELSE aliexpress_supplier(Tail(organic))

\* search_aliexpress_supplier (lines 210-253)
search_aliexpress_supplier(serper_key, response) ==
    IF ~serper_key THEN NoSupplier
    ELSE IF ~response.ok THEN NoSupplier
    ELSE aliexpress_supplier(response.organic)

(***************************************************************************)
(* MarketResearchBot: the keyword filters of scrape_reddit,                *)
(* scrape_indiehackers, scrape_devto and scrape_hackernews.                *)
(***************************************************************************)
Extractors == { "scrape_reddit", "scrape_indiehackers", "scrape_devto",
                "scrape_hackernews" }

\* lines 50-53
reddit_keywords ==
    { << "f", "r", "u", "s", "t", "r", "a", "t", "e", "d" >>,
      << "n", "e", "e", "d", " ", "a", "l", "t", "e", "r", "n", "a", "t", "i", "v", "e" >>,
      << "l", "o", "o", "k", "i", "n", "g", " ", "f", "o", "r", " ", "s", "o", "l", "u", "t", "i", "o", "n" >>,
      << "w", "i", "s", "h", " ", "t", "h", "e", "r", "e", " ", "w", "a", "s" >>,
      << "p", "a", "i", "n", "f", "u", "l" >>,
      << "i", "n", "e", "f", "f", "i", "c", "i", "e", "n", "t" >>,
      << "p", "r", "o", "b", "l", "e", "m", " ", "w", "i", "t", "h" >>,
      << "n", "e", "e", "d", " ", "h", "e", "l", "p" >>,
      << "s", "t", "r", "u", "g", "g", "l", "e" >>,
      << "d", "i", "f", "f", "i", "c", "u", "l", "t" >>,
      << "a", "n", "n", "o", "y", "i", "n", "g" >>,
      << "h", "a", "t", "e", " ", "t", "h", "a", "t" >>,
      << "b", "e", "t", "t", "e", "r", " ", "w", "a", "y" >>,
      << "r", "e", "c", "o", "m", "m", "e", "n", "d", "a", "t", "i", "o", "n", "s", " ", "f", "o", "r" >>,
      << "a", "l", "t", "e", "r", "n", "a", "t", "i", "v", "e", "s", " ", "t", "o" >> }

\* lines 137-138
indiehackers_keywords ==
    { << "r", "e", "v", "e", "n", "u", "e" >>,
      << "f", "a", "i", "l", "e", "d" >>,
      << "l", "e", "s", "s", "o", "n" >>,
      << "m", "i", "s", "t", "a", "k", "e" >>,
      << "s", "t", "r", "u", "g", "g", "l", "e" >>,
      << "p", "r", "o", "b", "l", "e", "m" >>,
      << "d", "i", "f", "f", "i", "c", "u", "l", "t" >>,
      << "c", "h", "a", "l", "l", "e", "n", "g", "e" >> }

\* lines 178-179
devto_keywords ==
    { << "p", "r", "o", "b", "l", "e", "m" >>,
      << "s", "t", "r", "u", "g", "g", "l", "e" >>,
      << "d", "i", "f", "f", "i", "c", "u", "l", "t" >>,
      << "f", "r", "u", "s", "t", "r", "a", "t" >>,
      << "w", "h", "y" >>,
      << "h", "o", "w", " ", "t", "o" >>,
      << "a", "l", "t", "e", "r", "n", "a", "t", "i", "v", "e" >>,
      << "b", "e", "t", "t", "e", "r", " ", "w", "a", "y" >> }

\* lines 216-217
hackernews_keywords ==
    { << "n", "e", "e", "d" >>,
      << "l", "o", "o", "k", "i", "n", "g", " ", "f", "o", "r" >>,
      << "a", "l", "t", "e", "r", "n", "a", "t", "i", "v", "e" >>,
      << "f", "r", "u", "s", "t", "r", "a", "t", "e", "d" >>,
      << "p", "r", "o", "b", "l", "e", "m" >>,
      << "s", "t", "r", "u", "g", "g", "l", "e" >>,
      << "d", "i", "f", "f", "i", "c", "u", "l", "t" >>,
      << "r", "e", "c", "o", "m", "m", "e", "n", "d", "a", "t", "i", "o", "n" >> }

AskHn == << "a", "s", "k", " ", "h", "n" >>
ShowHn == << "s", "h", "o", "w", " ", "h", "n" >>

RedditLimit == 50
CommentMinLength == 80
CommentTitleLimit == 80
ContentLimit == 500
IndieHackersLimit == 15
DevtoLimit == 15
HackerNewsLimit == 30

\* An item of a feed: a Reddit post (title, selftext) or comment (title of its
\* post, body), an IndieHackers feed item (title), a Dev.to article (title,
\* description), a Hacker News item (type, title, text; no text: the key is
\* missing).
FeedItem(kind, title, body, url) ==
    [ kind |-> kind, title |-> title, body |-> body, url |-> url ]

\* the test with the length test of the comments left out and the words looked
\* for in the text as it is written
keeps_case_sensitive(name, item) ==
    CASE name = "scrape_reddit" ->
           IF item.kind = "post"
           THEN AnyWordIn(reddit_keywords, item.title \o << " " >> \o item.body)
           ELSE TRUE
      [] name = "scrape_indiehackers" ->
           AnyWordIn(indiehackers_keywords, item.title)
      [] name = "scrape_devto" ->
           \E keyword \in devto_keywords :
               Contains(keyword, item.title) \/ Contains(keyword, lower(item.body))
      [] name = "scrape_hackernews" ->
           /\ item.kind \in { "story", "ask" }
           /\ \/ Contains(AskHn, lower(item.title))
              \/ Contains(ShowHn, lower(item.title))
              \/ \E word \in hackernews_keywords :
                    Contains(word, item.title) \/ Contains(word, lower(item.body))

\* The test that lets an item into `results` (lines 62-63 and 79-80 of
\* scrape_reddit, line 149, lines 182-185, lines 226-231)
keeps(name, item) ==
    CASE name = "scrape_reddit" ->
           IF item.kind = "post"
           THEN AnyWordIn(reddit_keywords, lower(item.title \o << " " >> \o item.body))
           ELSE /\ AnyWordIn(reddit_keywords, lower(item.body))
                /\ Len(item.body) > CommentMinLength
      [] name = "scrape_indiehackers" ->
           AnyWordIn(indiehackers_keywords, lower(item.title))
      [] name = "scrape_devto" ->
           \E keyword \in devto_keywords :
               Contains(keyword, lower(item.title)) \/ Contains(keyword, lower(item.body))
      [] name = "scrape_hackernews" ->
           /\ item.kind \in { "story", "ask" }
           /\ \/ Contains(AskHn, lower(item.title))
              \/ Contains(ShowHn, lower(item.title))
              \/ \E word \in hackernews_keywords :
                    Contains(word, lower(item.title)) \/ Contains(word, lower(item.body))

CommentOn == << "C", "o", "m", "m", "e", "n", "t", " ", "o", "n", ":", " " >>

\* The record appended for an item (lines 64-72, 81-89, 150-158, 186-194,
\* 232-240), without the engagement counts and the time
record_of(name, item) ==
    CASE name = "scrape_reddit" ->
           IF item.kind = "post"
           THEN [ source |-> "r/SaaS", title |-> item.title,
                  content |-> IF item.body # <<>> THEN Take(item.body, ContentLimit)
                              ELSE item.title,
                  url |-> item.url ]
           ELSE [ source |-> "r/SaaS",
                  title |-> CommentOn \o Take(item.title, CommentTitleLimit),
                  content |-> Take(item.body, ContentLimit),
                  url |-> item.url ]
      [] name = "scrape_indiehackers" ->
           [ source |-> "IndieHackers", title |-> item.title, content |-> item.title,
             url |-> item.url ]
      [] name = "scrape_devto" ->
           [ source |-> "Dev.to", title |-> item.title,
             content |-> Take(item.body, ContentLimit), url |-> item.url ]
      [] name = "scrape_hackernews" ->
           [ source |-> "Hacker News", title |-> item.title,
             content |-> Take(IF item.body # <<>> THEN item.body ELSE item.title,
                              ContentLimit),
             url |-> item.url ]

\* the loop of lines 96-101 over a whole list
RECURSIVE unique_by_url(_, _)
unique_by_url(items, seen) ==
    IF items = <<>> THEN <<>>
    ELSE IF Head(items).url \in seen THEN unique_by_url(Tail(items), seen)
    ELSE << Head(items) >> \o unique_by_url(Tail(items), seen \cup { Head(items).url })

\* what the extractor returns for the records its loops collected (lines
\* 95-103, 165, 199, 247)
scrape_return(name, collected) ==
    CASE name = "scrape_reddit"       -> Take(unique_by_url(collected, {}), RedditLimit)
      [] name = "scrape_indiehackers" -> Take(collected, IndieHackersLimit)
      [] name = "scrape_devto"        -> Take(collected, DevtoLimit)
      [] name = "scrape_hackernews"   -> Take(collected, HackerNewsLimit)

(***************************************************************************)
(* The two ranked listings: the "Top Discussions" of                       *)
(* MarketResearchBot.create_google_doc and the product list of the         *)
(* dashboard.                                                              *)
(***************************************************************************)
TopDiscussions == 10

\* x.get('upvotes', x.get('score', 0)) + x.get('comments', 0) (line 359): a
\* record carries its votes under one of the two keys
engagement(x) == x.votes + x.comments

\* list.sort keeps records with equal keys in their order, also with
\* reverse=True: a record goes behind every record whose key is not smaller
insert_descending(listing, x) ==
    LET ahead == { i \in 1..Len(listing) : engagement(listing[i]) >= engagement(x) }
        n     == IF ahead = {} THEN 0 ELSE SetMax(ahead)
    IN  SubSeq(listing, 1, n) \o << x >> \o SubSeq(listing, n + 1, Len(listing))

\* sorted(data_summary, key=..., reverse=True) (lines 357-361)
RECURSIVE sorted_reverse(_)
sorted_reverse(items) ==
    IF items = <<>> THEN <<>>
    ELSE insert_descending(sorted_reverse(SubSeq(items, 1, Len(items) - 1)),
                           items[Len(items)])

\* The orders DataFrame.sort_values('overall_score', ascending=False) can give
\* the labels of filtered_df (streamlit_app.py, line 165).  No `kind` is
\* passed, the sort is the default quicksort, which pandas documents as not
\* stable: rows with equal scores come in any order.
sort_values(df, labels) ==
    { order \in [ 1..Cardinality(labels) -> labels ] :
        /\ \A i, j \in DOMAIN order : i # j => order[i] # order[j]
        /\ \A i, j \in DOMAIN order :
              i < j => df[order[i]].overall_score >= df[order[j]].overall_score }

(***************************************************************************)
(* Idle values: what the variables of a part hold in the specifications    *)
(* that do not exercise that part.                                         *)
(***************************************************************************)
Reviewers == { "r1", "r2" }

DedupIdle ==
    /\ results = <<>>
    /\ seen_urls = {}
    /\ unique_results = <<>>
    /\ pos = 1
    /\ returned = <<>>

ScoreIdle ==
    /\ product_data = << >>
    /\ overall_score = 0

MarginIdle ==
    /\ amazon_price = 0
    /\ supplier_price = 0
    /\ margins = NoMargins

CategoryIdle ==
    /\ product_name = <<>>
    /\ category = ""

RunIdle ==
    /\ env = {}
    /\ articles = <<>>
    /\ article_index = 1
    /\ all_products = <<>>
    /\ console = {}

ReportIdle ==
    /\ bot = ""
    /\ docs_service = FALSE
    /\ all_data = <<>>
    /\ analysis = ""
    /\ doc_id = [ some |-> FALSE ]

SearchIdle ==
    /\ amazon_response = NoResponse
    /\ supplier_response = NoResponse
    /\ amazon_data = NoListing
    /\ supplier_data = NoSupplier

FilterIdle ==
    /\ extractor = ""
    /\ feed = <<>>

RankIdle ==
    /\ data_summary = <<>>
    /\ sorted_data = <<>>
    /\ filtered_df = <<>>

HarnessIdle ==
    /\ csv = <<>>
    /\ update_args = [ row_number |-> 0, new_status |-> "", notes |-> "" ]
    /\ update_result = FALSE
    /\ SearchIdle
    /\ FilterIdle
    /\ RankIdle

RestIdle == CategoryIdle /\ RunIdle /\ ReportIdle /\ HarnessIdle

StoreIdle ==
    /\ sheet = <<>>
    /\ view = [ r \in Reviewers |-> NoView ]
    /\ last_call = [ made |-> FALSE, off |-> TRUE ]

(***************************************************************************)
(* EnhancedDropshippingBot: the product pipeline (process_products) and    *)
(* the append of its result to the Products sheet.                         *)
(*                                                                         *)
(* What the searches answer for one product name is an input: a listing    *)
(* (or none) from search_amazon_product, a supplier price (or none) from   *)
(* search_aliexpress_supplier, and the country of the article.             *)
(***************************************************************************)
DogLeash == << "D", "o", "g", " ", "L", "e", "a", "s", "h" >>
DeskLamp == << "D", "e", "s", "k", " ", "L", "a", "m", "p" >>

Supplier(price)      == [ found |-> TRUE, supplier_price |-> price,
                           supplier_url |-> "https://aliexpress.com/item/1" ]

LeashKept ==
    [ product_name |-> DogLeash, country |-> "USA",
      amazon |-> Listing(DogLeash, Usd(60)), supplier |-> Supplier(Usd(10)) ]
LampKept ==
    [ product_name |-> DeskLamp, country |-> "UAE",
      amazon |-> Listing(DeskLamp, Usd(500)), supplier |-> Supplier(Usd(10)) ]
LeashNoListing ==
    [ product_name |-> DogLeash, country |-> "USA",
      amazon |-> NoListing, supplier |-> Supplier(Usd(10)) ]
LeashNoSupplier ==
    [ product_name |-> DogLeash, country |-> "USA",
      amazon |-> Listing(DogLeash, Usd(60)), supplier |-> NoSupplier ]
LampLowMargin ==
    [ product_name |-> DeskLamp, country |-> "UAE",
      amazon |-> Listing(DeskLamp, Usd(500)), supplier |-> Supplier(Usd(450)) ]
LeashLowMargin ==
    [ product_name |-> DogLeash, country |-> "USA",
      amazon |-> Listing(DogLeash, Usd(60)), supplier |-> Supplier(Usd(55)) ]

ResearchInputs ==
    { LeashKept, LampKept, LeashNoListing, LeashNoSupplier, LampLowMargin,
      LeashLowMargin }

\* The body of the loop over product names (lines 323-372): the products it
\* appends to all_products, none when a `continue` is taken.  A set, because
\* calculate_margins is.
ResearchProduct(inp) ==
    IF ~inp.amazon.found THEN { <<>> }
    ELSE IF ~inp.supplier.found THEN { <<>> }
    ELSE { IF Less(m.margin_percent, Pct(25)) THEN <<>>
           ELSE LET product_data_0 ==
                      [ product_name      |-> inp.amazon.product_name,
                        amazon_price      |-> inp.amazon.amazon_price,
                        supplier_price    |-> inp.supplier.supplier_price,
                        supplier_url      |-> inp.supplier.supplier_url,
                        profit            |-> m.profit,
                        margin_percent    |-> m.margin_percent,
                        total_cost        |-> m.total_cost,
                        recommended_price |-> m.recommended_price,
                        country           |-> inp.country,
                        category          |-> _guess_category(inp.product_name) ]
                IN  << [ k \in DOMAIN product_data_0 \cup {"overall_score"} |->
                           IF k = "overall_score"
                           THEN score_product_opportunity(product_data_0)
                           ELSE product_data_0[k] ] >>
           : m \in calculate_margins(inp.amazon.amazon_price,
                                     inp.supplier.supplier_price) }

\* all_products after the loops have run over the given product names
RECURSIVE process_products(_)
process_products(batch) ==
    IF batch = <<>> THEN { <<>> }
    ELSE { first \o rest : first \in ResearchProduct(Head(batch)),
                           rest  \in process_products(Tail(batch)) }

\* datetime.now().strftime('%Y-%m-%d %H:%M:%S') (line 405)
DateText == "%Y-%m-%d %H:%M:%S"

\* The row save_to_google_sheets builds for a product (lines 404-421), without
\* the image, description and reasoning columns, which nothing reads back.
\* The date cell is the text strftime gives; the code never reads or compares
\* dates, and every date is modelled by the one value DateText.  The price cell
\* is the text "$" followed by the amount as str() prints the float.
SheetRow(p) ==
    [ date_added        |-> DateText,
      product_name      |-> p.product_name,
      category          |-> p.category,
      country           |-> p.country,
      overall_score     |-> p.overall_score,
      demand_score      |-> IntOf(p.margin_percent),    \* demand_score = margin
      competition_score |-> 0,
      margin_score      |-> IntOf(p.profit),            \* margin_score = actual profit
      legal_risk_score  |-> 20,
      price             |-> << "$" >> \o FloatStr(p.amazon_price),
      supplier_link     |-> p.supplier_url,
      status            |-> "pending",
      notes             |-> "" ]

SheetRows(products) == [ i \in 1..Len(products) |-> SheetRow(products[i]) ]

\* values().update at the top of the range instead of values().append
AppendRows_overwrite(sh, rows) ==
    rows \o SubSeq(sh, Len(rows) + 1, Len(sh))

\* spreadsheets().values().append on Products!A:P (lines 424-430): the rows go
\* below the last row of the table
AppendRows(sh, rows) == sh \o rows

\* run_daily_research (lines 437-465): process_products, then
\* save_to_google_sheets when there are products.
\* What process_products can return in one run, over the answers the
\* searches can give for up to MaxBatch product names
ProcessResults ==
    UNION { process_products(batch) : batch \in SeqsUpTo(ResearchInputs, MaxBatch) }

BotRun ==
    /\ \E products \in ProcessResults :
          IF products # <<>>
          THEN /\ Len(sheet) + Len(products) <= MaxRows
               /\ sheet' = AppendRows(sheet, SheetRows(products))
          ELSE UNCHANGED sheet
    /\ UNCHANGED << view, last_call, pc, dedupVars, scoreVars, marginVars, restVars >>

(***************************************************************************)
(* streamlit_app.py: the review dashboard.  A script run loads the sheet   *)
(* and walks the display loop; a click runs its handler on the (idx, row)  *)
(* of that loop, from the table the run loaded.                            *)
(***************************************************************************)
Statuses  == { "pending", "approved", "rejected" }
NoteTexts == { "", "n1" }
MinScoreChoices == { 0, 50, 70, 100 }

\* load_products (lines 28-64): the rows below the header, one DataFrame row
\* per sheet row in sheet order.  The score cells hold the integers the bot
\* wrote, which to_numeric(...).fillna(0).astype(int) gives back unchanged.
load_products(sh) == [ i \in 1..Len(sh) |-> sh[i] ]

\* The labels of filtered_df (lines 157-162), as positions of df
Displayed(df, status_filter, country_filter, category_filter, min_score) ==
    { i \in 1..Len(df) :
        /\ df[i].status \in status_filter
        /\ df[i].country \in country_filter
        /\ df[i].category \in category_filter
        /\ df[i].overall_score >= min_score }

\* The rows some choice of the sidebar filters displays.  The multiselects
\* offer every subset of their options and Displayed grows with the filters, so
\* a row is displayed under some choice exactly when it is with every option
\* selected; the slider keeps its choices.
Displayable(df) ==
    LET countries  == { df[i].country : i \in 1..Len(df) }
        categories == { df[i].category : i \in 1..Len(df) }
    IN  UNION { Displayed(df, Statuses, countries, categories, min_score) :
                  min_score \in MinScoreChoices }

\* The history of calls is kept only where last_call starts as NoCall
HistoryOff == [ made |-> FALSE, off |-> TRUE ]

\* the position of a label in filtered_df before the sort
PositionIn(labels, i) == Cardinality({ j \in labels : j < i })

\* a display loop that numbers the rows of filtered_df from 0
Load_by_position(r) ==
    /\ LET df == load_products(sheet)
           countries  == { df[i].country : i \in 1..Len(df) }
           categories == { df[i].category : i \in 1..Len(df) }
       IN  \E min_score \in MinScoreChoices :
           \E i \in Displayed(df, Statuses, countries, categories, min_score) :
              view' = [ view EXCEPT ![r] =
                          [ loaded |-> TRUE,
                            idx |-> PositionIn(Displayed(df, Statuses, countries,
                                                         categories, min_score), i),
                            row |-> df[i],
                            total |-> IF last_call = HistoryOff THEN 0 ELSE Len(df) ] ]
    /\ UNCHANGED << sheet, last_call, pc, dedupVars, scoreVars, marginVars, restVars >>

\* A script run up to the display loop (lines 119-204), at one of the
\* displayed rows: iterrows gives the label of the row, its position in the
\* loaded table, whatever the filters and the sort have done.  An empty table
\* stops the script (line 123).  Where the history of calls is kept, the
\* view keeps len(df), the "Total Products" of the page (line 169).
Load(r) ==
    /\ LET df == load_products(sheet)
       IN  \E i \in Displayable(df) :
              view' = [ view EXCEPT ![r] =
                          [ loaded |-> TRUE, idx |-> i - 1, row |-> df[i],
                            total |-> IF last_call = HistoryOff THEN 0 ELSE Len(df) ] ]
    /\ UNCHANGED << sheet, last_call, pc, dedupVars, scoreVars, marginVars, restVars >>

BlankRow == [ date_added |-> "", product_name |-> <<>>, category |-> "",
              country |-> "", overall_score |-> 0,
              demand_score |-> 0, competition_score |-> 0, margin_score |-> 0,
              legal_risk_score |-> 0, price |-> <<>>, supplier_link |-> "",
              status |-> "", notes |-> "" ]

\* values().update on the range J{row_num}:K{row_num}, the price and link cells
UpdatedSheet_wrong_columns(sh, row_number, new_status, notes) ==
    LET p     == row_number + 1
        grown == [ i \in 1..(IF p > Len(sh) THEN p ELSE Len(sh)) |->
                     IF i <= Len(sh) THEN sh[i] ELSE BlankRow ]
    IN  [ grown EXCEPT ![p] = [ @ EXCEPT !.price = << new_status >>,
                                         !.supplier_link = notes ] ]

\* The sheet after values().update of Products!O{row_num}:P{row_num} with
\* [[new_status, notes]] (lines 73-80).  Sheet row row_num is position
\* row_num - 1 below the header; a row below the table comes into being.
UpdatedSheet(sh, row_number, new_status, notes) ==
    LET row_num == row_number + 2
        p       == row_num - 1
        grown   == [ i \in 1..(IF p > Len(sh) THEN p ELSE Len(sh)) |->
                       IF i <= Len(sh) THEN sh[i] ELSE BlankRow ]
    IN  [ grown EXCEPT ![p] = [ @ EXCEPT !.status = new_status, !.notes = notes ] ]

\* update_product_status(row_number, new_status, notes="") returning True,
\* followed by st.rerun(): the session starts a new script run.
update_product_status(r, row_number, new_status, notes, passed) ==
    /\ sheet' = UpdatedSheet(sheet, row_number, new_status, notes)
    /\ view' = [ view EXCEPT ![r] = NoView ]
    /\ last_call' = IF last_call = HistoryOff THEN HistoryOff
                    ELSE [ made |-> TRUE, row_number |-> row_number,
                           rows_loaded |-> view[r].total,
                           new_status |-> new_status, notes_passed |-> passed,
                           status_before |-> sheet[row_number + 1].status,
                           notes_before |-> sheet[row_number + 1].notes ]
    /\ UNCHANGED << pc, dedupVars, scoreVars, marginVars, restVars >>

DefaultNotes == ""

\* lines 248-252
Approve(r) ==
    /\ view[r].loaded
    /\ view[r].row.status = "pending"
    /\ update_product_status(r, view[r].idx, "approved", DefaultNotes, FALSE)

\* lines 254-257
Reject(r) ==
    /\ view[r].loaded
    /\ view[r].row.status = "pending"
    /\ update_product_status(r, view[r].idx, "rejected", DefaultNotes, FALSE)

\* lines 259-263
RevertApproved(r) ==
    /\ view[r].loaded
    /\ view[r].row.status = "approved"
    /\ update_product_status(r, view[r].idx, "pending", DefaultNotes, FALSE)

\* a Revert that undoes a rejection by approving
RevertRejected_approves(r) ==
    /\ view[r].loaded
    /\ view[r].row.status = "rejected"
    /\ update_product_status(r, view[r].idx, "approved", DefaultNotes, FALSE)

\* lines 265-269
RevertRejected(r) ==
    /\ view[r].loaded
    /\ view[r].row.status = "rejected"
    /\ update_product_status(r, view[r].idx, "pending", DefaultNotes, FALSE)

\* lines 272-276: the text of the notes box, with the status of the loaded row
SaveNote(r) ==
    /\ view[r].loaded
    /\ \E notes \in NoteTexts :
          update_product_status(r, view[r].idx, view[r].row.status, notes, TRUE)

StatusButton(r) ==
    \/ Approve(r)
    \/ Reject(r)
    \/ RevertApproved(r)
    \/ RevertRejected(r)

Click(r) == StatusButton(r) \/ SaveNote(r)

StoreInit ==
    /\ sheet = <<>>
    /\ view = [ r \in Reviewers |-> NoView ]
    /\ last_call = HistoryOff
    /\ pc = "run"

Init == StoreInit /\ DedupIdle /\ ScoreIdle /\ MarginIdle /\ RestIdle

Next ==
    \/ BotRun
    \/ \E r \in Reviewers : Load(r)
    \/ \E r \in Reviewers : Approve(r)
    \/ \E r \in Reviewers : Reject(r)
    \/ \E r \in Reviewers : RevertApproved(r)
    \/ \E r \in Reviewers : RevertRejected(r)
    \/ \E r \in Reviewers : SaveNote(r)

Spec == Init /\ [][Next]_vars

(***************************************************************************)
(* The review workflow alone, over a sheet one bot run has filled, with    *)
(* the history of update_product_status calls kept in last_call.           *)
(***************************************************************************)
LedgerInit ==
    /\ sheet \in { SheetRows(products) : products \in
                     { ps \in ProcessResults : Len(ps) \in 1..MaxLedgerRows } }
    /\ view = [ r \in Reviewers |-> NoView ]
    /\ last_call = NoCall
    /\ pc = "run"

InitLedger == LedgerInit /\ DedupIdle /\ ScoreIdle /\ MarginIdle /\ RestIdle

NextLedger ==
    \/ \E r \in Reviewers : Load(r)
    \/ \E r \in Reviewers : Approve(r)
    \/ \E r \in Reviewers : Reject(r)
    \/ \E r \in Reviewers : RevertApproved(r)
    \/ \E r \in Reviewers : RevertRejected(r)
    \/ \E r \in Reviewers : SaveNote(r)

SpecLedger == InitLedger /\ [][NextLedger]_vars

(***************************************************************************)
(* The review workflow of one reviewer with the history kept, while the    *)
(* bot goes on appending rows below the ones the reviewer has loaded.      *)
(***************************************************************************)
Reviewer == CHOOSE r \in Reviewers : TRUE

InitAppend == InitLedger
NextAppend ==
    \/ BotRun
    \/ Load(Reviewer)
    \/ Approve(Reviewer)
    \/ Reject(Reviewer)
    \/ RevertApproved(Reviewer)
    \/ RevertRejected(Reviewer)
    \/ SaveNote(Reviewer)
SpecAppend == InitAppend /\ [][NextAppend]_vars

(***************************************************************************)
(* MarketResearchBot.scrape_reddit: removal of duplicates by URL and the    *)
(* limit on the returned list (lines 95-103).  The list `results` is what  *)
(* the scrape loops collected.                                             *)
(***************************************************************************)
Urls   == { "A", "B", "C" }
Titles == { "t1", "t2" }
\* the URL f"https://reddit.com{post.permalink}" (lines 68 and 85) gives a
\* record whose post or comment came without a permalink
NoPermalinkUrl == "https://reddit.comNone"

Items  == [ url : Urls \cup { NoPermalinkUrl }, title : Titles ]

DedupInit ==
    /\ results \in SeqsUpTo(Items, MaxLen)
    /\ seen_urls = {}
    /\ unique_results = <<>>
    /\ pos = 1
    /\ returned = <<>>
    /\ pc = "dedup"

\* the loop body without seen_urls.add
DedupStep_noadd ==
    /\ pc = "dedup"
    /\ pos <= Len(results)
    /\ LET item == results[pos]
       IN  IF item.url \notin seen_urls
           THEN /\ unique_results' = Append(unique_results, item)
                /\ UNCHANGED seen_urls
           ELSE UNCHANGED << seen_urls, unique_results >>
    /\ pos' = pos + 1
    /\ UNCHANGED << results, returned, pc, storeVars, scoreVars, marginVars, restVars >>

\* one iteration of `for item in results` (lines 98-101)
DedupStep ==
    /\ pc = "dedup"
    /\ pos <= Len(results)
    /\ LET item == results[pos]
       IN  IF item.url \notin seen_urls
           THEN /\ seen_urls' = seen_urls \cup { item.url }
                /\ unique_results' = Append(unique_results, item)
           ELSE UNCHANGED << seen_urls, unique_results >>
    /\ pos' = pos + 1
    /\ UNCHANGED << results, returned, pc, storeVars, scoreVars, marginVars, restVars >>

\* return unique_results[:50] (line 103)
ScrapeReturn ==
    /\ pc = "dedup"
    /\ pos > Len(results)
    /\ returned' = Take(unique_results, RedditLimit)
    /\ pc' = "returned"
    /\ UNCHANGED << results, seen_urls, unique_results, pos, storeVars,
                    scoreVars, marginVars, restVars >>

InitDedup == StoreIdle /\ DedupInit /\ ScoreIdle /\ MarginIdle /\ RestIdle
NextDedup == DedupStep \/ ScrapeReturn
SpecDedup == InitDedup /\ [][NextDedup]_vars

(***************************************************************************)
(* A call of score_product_opportunity on an arbitrary record.             *)
(* Values sit on and next to every threshold of the three buckets; any     *)
(* of the three keys may be missing from the dict.                         *)
(***************************************************************************)
MarginInputs == { Pct(-10), 0, Pct(20) - 1, Pct(20), Pct(30) - 1, Pct(30),
                  Pct(40) - 1, Pct(40), Pct(50) - 1, Pct(50), Pct(90) }
ProfitInputs == { Usd(-5), 0, Usd(10) - 1, Usd(10), Usd(20) - 1, Usd(20),
                  Usd(30) - 1, Usd(30), Usd(470) }
PriceInputs  == { Usd(-1), 0, 1, Usd(10) - 1, Usd(10), Usd(20) - 1, Usd(20),
                  Usd(80), Usd(80) + 1, Usd(100), Usd(100) + 1 }

ScoreKeys == { "margin_percent", "profit", "amazon_price" }

Restrict(d, K) == [ k \in K |-> d[k] ]

ScoreInputs ==
    { Restrict(d, K) : d \in [ margin_percent : MarginInputs,
                               profit         : ProfitInputs,
                               amazon_price   : PriceInputs ],
                       K \in SUBSET ScoreKeys }

ScoreInit ==
    /\ product_data \in ScoreInputs
    /\ overall_score = 0
    /\ pc = "call"

ScoreCall ==
    /\ pc = "call"
    /\ overall_score' = score_product_opportunity(product_data)
    /\ pc' = "return"
    /\ UNCHANGED << product_data, storeVars, dedupVars, marginVars, restVars >>

InitScore == StoreIdle /\ DedupIdle /\ ScoreInit /\ MarginIdle /\ RestIdle
NextScore == ScoreCall
SpecScore == InitScore /\ [][NextScore]_vars

(***************************************************************************)
(* A call of calculate_margins on arbitrary prices (cents).                *)
(***************************************************************************)
RetailInputs   == { 0, 50, Usd(10) + 50, Usd(19) + 99, Usd(20), Usd(60),
                    Usd(100), Usd(500) }
SupplierInputs == { 0, Usd(3), Usd(10), Usd(12) + 34, Usd(40), Usd(55), Usd(100) }

MarginInit ==
    /\ amazon_price \in RetailInputs
    /\ supplier_price \in SupplierInputs
    /\ margins = NoMargins
    /\ pc = "call"

MarginCall ==
    /\ pc = "call"
    /\ \E m \in calculate_margins(amazon_price, supplier_price) : margins' = m
    /\ pc' = "return"
    /\ UNCHANGED << amazon_price, supplier_price, storeVars, dedupVars, scoreVars, restVars >>

InitMargin == StoreIdle /\ DedupIdle /\ ScoreIdle /\ MarginInit /\ RestIdle
NextMargin == MarginCall
SpecMargin == InitMargin /\ [][NextMargin]_vars

(***************************************************************************)
(* A call of _guess_category on a product name.  The names are built from  *)
(* up to MaxWords pieces: keywords of each category in several cases,      *)
(* words that are no keyword, a blank, and pieces that make a keyword only *)
(* when joined ("ca" + "t"); the three names of the documented examples    *)
(* are added.                                                              *)
(***************************************************************************)
NamePieces ==
    { << "D", "o", "g" >>,
      << "B", "o", "w", "l" >>,
      << "L", "A", "M", "P" >>,
      << "y", "o", "g", "a" >>,
      << "b", "a", "b", "y" >>,
      << "M", "u", "g" >>,
      << " " >>,
      << "c", "a" >>,
      << "t" >>,
      << "g", "y", "m" >> }

StainlessSteelDogLeash == << "S", "t", "a", "i", "n", "l", "e", "s", "s", " ", "S", "t", "e", "e", "l", " ", "D", "o", "g", " ", "L", "e", "a", "s", "h" >>
CeramicCoffeeMug == << "C", "e", "r", "a", "m", "i", "c", " ", "C", "o", "f", "f", "e", "e", " ", "M", "u", "g" >>
WirelessMouse == << "W", "i", "r", "e", "l", "e", "s", "s", " ", "M", "o", "u", "s", "e" >>

NameInputs ==
    { Concat(parts) : parts \in SeqsUpTo(NamePieces, MaxWords) }
        \cup { StainlessSteelDogLeash, CeramicCoffeeMug, WirelessMouse }

CategoryInit ==
    /\ product_name \in NameInputs
    /\ category = ""
    /\ pc = "call"

GuessCall ==
    /\ pc = "call"
    /\ category' = _guess_category(product_name)
    /\ pc' = "return"
    /\ UNCHANGED << product_name, storeVars, dedupVars, scoreVars, marginVars, runVars,
                    reportVars,
                    harnessVars >>

InitCategory == StoreIdle /\ DedupIdle /\ ScoreIdle /\ MarginIdle /\ CategoryInit /\ RunIdle
                   /\ ReportIdle
                   /\ HarnessIdle
NextCategory == GuessCall
SpecCategory == InitCategory /\ [][NextCategory]_vars

(***************************************************************************)
(* A run of EnhancedDropshippingBot step by step: construction, the search *)
(* for articles, the loop of process_products over the articles, and the   *)
(* summary with the save (run_daily_research).  An exception that no       *)
(* handler catches ends the run: pc records where it was raised.           *)
(***************************************************************************)
EnvNames == { "GOOGLE_SERVICE_ACCOUNT", "PRODUCT_SHEET_ID", "SERPER_API_KEY" }

\* A value that may be None
None == [ some |-> FALSE ]
Some(v) == [ some |-> TRUE, val |-> v ]

ArticleLimit == 20
ArticlesProcessed == 10
ProductsPerArticle == 5

\* What the language model answers for an article: text that is no list, or a
\* list whose elements are product names (strings) or something else; with
\* each element, what the searches answer for it.
NoList == [ is_list |-> FALSE ]
ListOf(items) == [ is_list |-> TRUE, items |-> items ]
Name(inp)    == [ is_str |-> TRUE, inp |-> inp ]
NotAStr(inp) == [ is_str |-> FALSE, inp |-> inp ]

\* A search result of find_trend_articles (title and link as item.get gives
\* them) with the answer of the language model for the page behind it.
SearchResult(title, link, answer) ==
    [ title |-> title, url |-> link, answer |-> answer ]

ArticleInputs ==
    { SearchResult(Some("Top pets"), Some("u1"), ListOf(<< Name(LeashKept) >>)),
      SearchResult(Some("Top lamps"), Some("u2"), ListOf(<< Name(LampKept), Name(LampLowMargin) >>)),
      SearchResult(Some("No link"), None, ListOf(<< Name(LeashKept) >>)),
      SearchResult(None, Some("u3"), ListOf(<< Name(LeashKept) >>)),
      SearchResult(Some("Prose"), Some("u4"), NoList),
      SearchResult(Some("Numbers"), Some("u5"), ListOf(<< NotAStr(LeashKept) >>)),
      SearchResult(Some("Nothing sold"), Some("u6"), ListOf(<< NotAStr(LeashNoListing), Name(LeashNoSupplier) >>)) }

\* parse_article_for_products (lines 100-146): requests.get(None) raises inside
\* the try, an answer that is no list gives []
parse_article_for_products(article) ==
    IF ~article.url.some THEN <<>>
    ELSE IF ~article.answer.is_list THEN <<>>
    ELSE article.answer.items

Returned(products) == [ raised |-> FALSE, products |-> products ]
Raised == [ raised |-> TRUE, products |-> <<>> ]

\* One pass of the loop body (lines 323-374) for an element of the list.  The
\* searches format the name into a query inside their try; a kept product
\* reaches _guess_category (line 363), where name.lower() raises for a name
\* that is no string.
ResearchItem(item) ==
    { IF p # <<>> /\ ~item.is_str THEN Raised ELSE Returned(p) :
        p \in ResearchProduct(item.inp) }

RECURSIVE ResearchItems(_)
ResearchItems(items) ==
    IF items = <<>> THEN { Returned(<<>>) }
    ELSE { IF first.raised THEN Raised
           ELSE IF rest.raised THEN Raised
           ELSE Returned(first.products \o rest.products) :
             first \in ResearchItem(Head(items)),
             rest  \in ResearchItems(Tail(items)) }

RunInit ==
    /\ env \in SUBSET EnvNames
    /\ articles = <<>>
    /\ article_index = 1
    /\ all_products = <<>>
    /\ console = {}
    /\ sheet = <<>>
    /\ view = [ r \in Reviewers |-> NoView ]
    /\ last_call = HistoryOff
    /\ pc = "start"

\* EnhancedDropshippingBot() (lines 23-47): json.loads(os.getenv(...)) raises
\* TypeError for a variable that is not set
Construct ==
    /\ pc = "start"
    /\ pc' = IF "GOOGLE_SERVICE_ACCOUNT" \in env THEN "constructed"
             ELSE "construct_raised"
    /\ UNCHANGED << storeVars, dedupVars, scoreVars, marginVars, categoryVars, runVars,
                    reportVars,
                    harnessVars >>

\* find_trend_articles (lines 49-98), called by process_products (line 315).
\* A query that fails adds nothing.
FindArticles ==
    /\ pc = "constructed"
    /\ IF "SERPER_API_KEY" \notin env
       THEN /\ articles' = <<>>
            /\ console' = console \cup { "No Serper API key" }
       ELSE /\ \E results_0 \in SeqsUpTo(ArticleInputs, MaxArticles) :
                  articles' = Take(results_0, ArticleLimit)
            /\ UNCHANGED console
    /\ article_index' = 1
    /\ pc' = "process"
    /\ UNCHANGED << env, all_products, storeVars, dedupVars, scoreVars, marginVars,
                    categoryVars, reportVars,
                    harnessVars >>

\* One pass of `for article in articles[:10]` (lines 318-374)
ProcessArticle ==
    /\ pc = "process"
    /\ article_index <= Len(Take(articles, ArticlesProcessed))
    /\ LET article == articles[article_index]
       IN  IF ~article.title.some
           THEN \* article['title'][:60] (line 319) raises TypeError
                /\ pc' = "process_raised"
                /\ UNCHANGED << all_products, article_index >>
           ELSE LET products == parse_article_for_products(article)
                IN  \E o \in ResearchItems(Take(products, ProductsPerArticle)) :
                       IF o.raised
                       THEN /\ pc' = "process_raised"
                            /\ UNCHANGED << all_products, article_index >>
                       ELSE /\ all_products' = all_products \o o.products
                            /\ article_index' = article_index + 1
                            /\ UNCHANGED pc
    /\ UNCHANGED << env, articles, console, storeVars, dedupVars, scoreVars,
                    marginVars, categoryVars, reportVars,
                    harnessVars >>

\* save_to_google_sheets (lines 395-435); the append fails or not
save_to_google_sheets(products) ==
    IF "PRODUCT_SHEET_ID" \notin env \/ products = <<>>
    THEN /\ console' = console \cup { "No products to save or sheet ID missing" }
         /\ UNCHANGED sheet
    ELSE \/ /\ sheet' = AppendRows(sheet, SheetRows(products))
            /\ console' = console \cup { "Saved" }
         \/ /\ console' = console \cup { "Error saving to Sheets" }
            /\ UNCHANGED sheet

\* run_daily_research after process_products has returned (lines 447-465)
Summary ==
    /\ pc = "process"
    /\ article_index > Len(Take(articles, ArticlesProcessed))
    /\ IF all_products # <<>>
       THEN save_to_google_sheets(all_products)
       ELSE /\ console' = console \cup { "No profitable products found this run" }
            /\ UNCHANGED sheet
    /\ pc' = "done"
    /\ UNCHANGED << env, articles, article_index, all_products, view, last_call,
                    dedupVars, scoreVars, marginVars, categoryVars, reportVars,
                    harnessVars >>

InitRun == RunInit /\ DedupIdle /\ ScoreIdle /\ MarginIdle /\ CategoryIdle /\ ReportIdle
                   /\ HarnessIdle
NextRun == Construct \/ FindArticles \/ ProcessArticle \/ Summary
SpecRun == InitRun /\ [][NextRun]_vars

(***************************************************************************)
(* A run of MarketResearchBot or of DropshippingTrendBot step by step:     *)
(* construction, collection, analysis, the Google Doc, the closing         *)
(* messages (run_daily_research of market_research_bot.py and of           *)
(* dropshipping_trend_bot.py).                                             *)
(***************************************************************************)
Bots == { "MarketResearchBot", "DropshippingTrendBot" }

DataPoints == [ source : { "r/SaaS", "Hacker News" }, url : { "A", "B" } ]

\* an Instagram step that has nothing to give
instagram_data_empty == << >>

\* scrape_instagram_trending_india (dropshipping_trend_bot.py, lines 151-157)
instagram_data ==
    << [ source |-> "Instagram Trends", note |-> "Check these hashtags manually" ] >>

\* what analyze_with_ai returns: the answer of the model, or the error text
AnalysisTexts == { "analysis", "Error analyzing data" }

ReportInit ==
    /\ bot \in Bots
    /\ env \in SUBSET { "GOOGLE_CREDENTIALS" }
    /\ docs_service = FALSE
    /\ all_data = <<>>
    /\ analysis = ""
    /\ doc_id = None
    /\ console = {}
    /\ articles = <<>>
    /\ article_index = 1
    /\ all_products = <<>>
    /\ pc = "start"

\* MarketResearchBot.__init__ (lines 19-44): the Google step sits in a try
\* whose handler sets the services to None.
\* DropshippingTrendBot.__init__ (lines 17-26): the same step without a try.
ConstructReportBot ==
    /\ pc = "start"
    /\ IF bot = "MarketResearchBot"
       THEN \/ /\ "GOOGLE_CREDENTIALS" \in env
               /\ docs_service' = TRUE
               /\ UNCHANGED console
               /\ pc' = "collect"
            \/ /\ docs_service' = FALSE
               /\ console' = console \cup { "Google authentication failed" }
               /\ pc' = "collect"
       ELSE IF "GOOGLE_CREDENTIALS" \in env
            THEN /\ docs_service' = TRUE
                 /\ UNCHANGED console
                 /\ pc' = "collect"
            ELSE /\ pc' = "construct_raised"
                 /\ UNCHANGED << docs_service, console >>
    /\ UNCHANGED << bot, env, all_data, analysis, doc_id, articles, article_index,
                    all_products, storeVars, dedupVars, scoreVars, marginVars,
                    categoryVars,
                    harnessVars >>

\* a run that goes on to the analysis whatever was collected
Collect_goes_on ==
    /\ pc = "collect"
    /\ \E scraped \in SeqsUpTo(DataPoints, MaxData) :
          all_data' = IF bot = "MarketResearchBot" THEN scraped
                      ELSE scraped \o instagram_data
    /\ UNCHANGED console
    /\ pc' = "analyze"
    /\ UNCHANGED << bot, env, docs_service, analysis, doc_id, articles, article_index,
                    all_products, storeVars, dedupVars, scoreVars, marginVars,
                    categoryVars,
                    harnessVars >>

\* The scrape_* calls and the test for no data (market_research_bot.py lines
\* 395-415, dropshipping_trend_bot.py lines 350-370).  Every scraper returns
\* a list, whatever fails inside it.
Collect ==
    /\ pc = "collect"
    /\ \E scraped \in SeqsUpTo(DataPoints, MaxData) :
          all_data' = IF bot = "MarketResearchBot" THEN scraped
                      ELSE scraped \o instagram_data
    /\ IF Len(all_data') = 0
       THEN /\ console' = console \cup { "No data collected. Exiting." }
            /\ pc' = "done"
       ELSE /\ UNCHANGED console
            /\ pc' = "analyze"
    /\ UNCHANGED << bot, env, docs_service, analysis, doc_id, articles, article_index,
                    all_products, storeVars, dedupVars, scoreVars, marginVars,
                    categoryVars,
                    harnessVars >>

\* analyze_with_ai (market_research_bot.py lines 249-306)
Analyze ==
    /\ pc = "analyze"
    /\ analysis' \in AnalysisTexts
    /\ pc' = "report"
    /\ UNCHANGED << bot, env, docs_service, all_data, doc_id, console, articles,
                    article_index, all_products, storeVars, dedupVars, scoreVars,
                    marginVars, categoryVars,
                    harnessVars >>

\* create_google_doc (market_research_bot.py lines 308-386,
\* dropshipping_trend_bot.py lines 269-341).  The calls of the Docs service
\* succeed, raise HttpError, or raise another exception (no route to the
\* server, a timeout, a refused token), which `except HttpError` lets through.
create_google_doc ==
    IF bot = "MarketResearchBot" /\ ~docs_service
    THEN /\ console' = console \cup { "Google Docs service not available", analysis }
         /\ doc_id' = None
         /\ pc' = "finish"
    ELSE \/ /\ doc_id' = Some("doc")
            /\ console' = console \cup { "Report created" }
            /\ pc' = "finish"
         \/ /\ doc_id' = None
            /\ console' = console \cup { "Error creating Google Doc" }
            /\ pc' = "finish"
         \/ /\ pc' = "report_raised"
            /\ UNCHANGED << doc_id, console >>

CreateDoc ==
    /\ pc = "report"
    /\ create_google_doc
    /\ UNCHANGED << bot, env, docs_service, all_data, analysis, articles,
                    article_index, all_products, storeVars, dedupVars, scoreVars,
                    marginVars, categoryVars,
                    harnessVars >>

\* the closing messages (market_research_bot.py lines 426-432,
\* dropshipping_trend_bot.py lines 379-386)
Finish ==
    /\ pc = "finish"
    /\ console' = console \cup
          ( IF doc_id.some THEN { "SUCCESS! Report available at" }
            ELSE IF bot = "MarketResearchBot"
            THEN { "Report creation skipped, but analysis is complete above." }
            ELSE { "Report creation failed, but here's the analysis", analysis } )
    /\ pc' = "done"
    /\ UNCHANGED << bot, env, docs_service, all_data, analysis, doc_id, articles,
                    article_index, all_products, storeVars, dedupVars, scoreVars,
                    marginVars, categoryVars,
                    harnessVars >>

InitReport == StoreIdle /\ DedupIdle /\ ScoreIdle /\ MarginIdle /\ CategoryIdle /\ ReportInit
                   /\ HarnessIdle
NextReport == ConstructReportBot \/ Collect \/ Analyze \/ CreateDoc \/ Finish
SpecReport == InitReport /\ [][NextReport]_vars

(***************************************************************************)
(* streamlit_app.py: the export section of a script run (lines 181-196)    *)
(* and export_to_shopify_csv (lines 88-109).  The exported table is kept   *)
(* as its rows, before to_csv writes them out; the columns taken from the  *)
(* description and image cells and the constant columns other than Vendor, *)
(* Published and Status are left out.                                      *)
(***************************************************************************)
NotAvailable == << "N", "/", "A" >>

\* df[df['status'] == 'approved'] with the pending rows left in as well
approved_rows_and_pending(df) ==
    SelectSeq(df, LAMBDA row : row.status # "rejected")

\* df[df['status'] == 'approved'] (line 188)
approved_rows(df) ==
    SelectSeq(df, LAMBDA row : row.status = "approved")

export_to_shopify_csv(df) ==
    [ i \in 1..Len(df) |->
        [ Handle       |-> replace(lower(df[i].product_name), << " " >>, << "-" >>),
          Title        |-> df[i].product_name,
          Vendor       |-> "Dropship",
          Type         |-> df[i].category,
          Tags         |-> << df[i].category, ", ", df[i].country, ", Score-" >>
                              \o NatStr(df[i].overall_score),
          Published    |-> "TRUE",
          VariantPrice |-> replace(replace(df[i].price, << "$" >>, << >>),
                                   NotAvailable, << "0" >>),
          Status       |-> "draft" ] ]

\* The rows a sheet can hold: rows the bot wrote, with any status, and with
\* the price cell as written or holding the text N/A.
KeptProducts == { ps[1] : ps \in { qs \in ResearchProduct(LeashKept) \cup
                                            ResearchProduct(LampKept) : qs # <<>> } }

ExportRowInputs ==
    { [ SheetRow(p) EXCEPT !.status = st, !.price = pr ] :
        p \in KeptProducts, st \in Statuses, pr \in { SheetRow(q).price : q \in KeptProducts }
                                                       \cup { NotAvailable } }

ExportInit ==
    /\ sheet \in SeqsUpTo(ExportRowInputs, MaxExportRows)
    /\ view = [ r \in Reviewers |-> NoView ]
    /\ last_call = HistoryOff
    /\ csv = <<>>
    /\ update_args = [ row_number |-> 0, new_status |-> "", notes |-> "" ]
    /\ update_result = FALSE
    /\ pc = "script"

\* A script run down to the export section (lines 119-196)
ExportRun ==
    /\ pc = "script"
    /\ LET df == load_products(sheet)
       IN  IF Len(df) = 0
           THEN /\ pc' = "stopped"                    \* st.stop() (line 123)
                /\ UNCHANGED csv
           ELSE IF Len(approved_rows(df)) > 0
                THEN /\ csv' = export_to_shopify_csv(approved_rows(df))
                     /\ pc' = "exported"
                ELSE /\ pc' = "no_export"
                     /\ UNCHANGED csv
    /\ UNCHANGED << storeVars, dedupVars, scoreVars, marginVars, categoryVars,
                    runVars, reportVars, updateVars, searchVars, filterVars,
                    rankVars >>

InitExport == ExportInit /\ DedupIdle /\ ScoreIdle /\ MarginIdle /\ CategoryIdle
                 /\ RunIdle /\ ReportIdle /\ SearchIdle /\ FilterIdle /\ RankIdle
NextExport == ExportRun
SpecExport == InitExport /\ [][NextExport]_vars

(***************************************************************************)
(* A call of update_product_status(row_number, new_status, notes) on its   *)
(* own (streamlit_app.py lines 66-86), for any row number: the sheet has a *)
(* row for it or not.  The row numbers of the model lie within the grid of *)
(* the sheet, where values().update writes the two cells; the call returns *)
(* False when the request raises (the store cannot be reached).            *)
(***************************************************************************)
UpdateInit ==
    /\ sheet \in { SheetRows(products) : products \in ProcessResults }
    /\ view = [ r \in Reviewers |-> NoView ]
    /\ last_call = HistoryOff
    /\ update_args \in [ row_number : 0..MaxRowNumber, new_status : Statuses,
                          notes : NoteTexts ]
    /\ update_result = FALSE
    /\ csv = <<>>
    /\ pc = "call"

UpdateCall ==
    /\ pc = "call"
    /\ \/ /\ sheet' = UpdatedSheet(sheet, update_args.row_number,
                                    update_args.new_status, update_args.notes)
          /\ update_result' = TRUE
       \/ /\ UNCHANGED sheet
          /\ update_result' = FALSE
    /\ pc' = "return"
    /\ UNCHANGED << view, last_call, update_args, csv, dedupVars, scoreVars,
                    marginVars, categoryVars, runVars, reportVars, searchVars,
                    filterVars, rankVars >>

InitUpdate == UpdateInit /\ DedupIdle /\ ScoreIdle /\ MarginIdle /\ CategoryIdle
                 /\ RunIdle /\ ReportIdle /\ SearchIdle /\ FilterIdle /\ RankIdle
NextUpdate == UpdateCall
SpecUpdate == InitUpdate /\ [][NextUpdate]_vars

(***************************************************************************)
(* A call of search_amazon_product or of search_aliexpress_supplier on     *)
(* what the search request gave.  The snippets are built from up to        *)
(* MaxPieces pieces: a price in the shape of each pattern, a price of      *)
(* zero, text without a price, and pieces that make a price only when      *)
(* joined; the item that carries the snippet comes after up to             *)
(* MaxOrganic - 1 items the loop passes over.                              *)
(***************************************************************************)
SnippetPieces ==
    { << "$", "1", "9", ".", "9", "9", " " >>,
      << "2", "4", ".", "5", " ", "U", "S", "D" >>,
      << "A", "E", "D", " ", "5", "0" >>,
      << "S", "A", "R", "7", "5" >>,
      << "U", "S", " ", "$" >>,
      << "$", "0" >>,
      << "G", "r", "e", "a", "t", " ", "d", "e", "a", "l" >>,
      << "7", "." >>,
      << "5" >> }

Snippets == { Concat(parts) : parts \in SeqsUpTo(SnippetPieces, MaxPieces) }

AmazonProductLink == << "h", "t", "t", "p", "s", ":", "/", "/", "a", "m", "a", "z", "o", "n", ".", "c", "o", "m", "/", "d", "p", "/", "B", "0", "1" >>
AmazonSearchLink == << "h", "t", "t", "p", "s", ":", "/", "/", "a", "m", "a", "z", "o", "n", ".", "c", "o", "m", "/", "s" >>
AliexpressLink == << "h", "t", "t", "p", "s", ":", "/", "/", "a", "l", "i", "e", "x", "p", "r", "e", "s", "s", ".", "c", "o", "m", "/", "i", "t", "e", "m", "/", "1" >>

LeashTitle == << " ", "D", "o", "g", " ", "L", "e", "a", "s", "h", " ", "|", " ", "A", "m", "a", "z", "o", "n", ".", "c", "o", "m" >>
LampTitle == << "D", "e", "s", "k", " ", "L", "a", "m", "p", " ", "$", "2", "5" >>

OrganicItem(link, snippet, title) == [ link |-> link, snippet |-> snippet, title |-> title ]

\* the link and the title of an organic result
LinkAndTitle ==
    { << AmazonProductLink, LeashTitle >>,
      << AmazonProductLink, LampTitle >>,
      << AliexpressLink, LeashTitle >>,
      << AmazonSearchLink, LeashTitle >> }

OrganicItems ==
    { OrganicItem(lt[1], snippet, lt[2]) : lt \in LinkAndTitle, snippet \in Snippets }

\* items ahead of the one that carries the snippet: a link that is no product
\* page, a supplier page without a price, a listing priced at zero
LeadingItems ==
    { OrganicItem(AmazonSearchLink, << "$", "1", "9", ".", "9", "9", " " >>, LeashTitle),
      OrganicItem(AliexpressLink, << "G", "r", "e", "a", "t", " ", "d", "e", "a", "l" >>, LeashTitle),
      OrganicItem(AmazonProductLink, << "$", "0" >>, LeashTitle) }

SearchResponses ==
    { NoResponse, Response(<<>>) }
      \cup { Response(Append(leading, item)) :
               leading \in SeqsUpTo(LeadingItems, MaxOrganic - 1),
               item \in OrganicItems }

SearchInit ==
    /\ pc \in { "search_amazon_product", "search_aliexpress_supplier" }
    /\ \/ /\ env = { "SERPER_API_KEY" }
          /\ IF pc = "search_amazon_product"
             THEN amazon_response \in SearchResponses /\ supplier_response = NoResponse
             ELSE supplier_response \in SearchResponses /\ amazon_response = NoResponse
       \/ /\ env = {}                      \* without a key no request is made
          /\ amazon_response = NoResponse
          /\ supplier_response = NoResponse
    /\ amazon_data = NoListing
    /\ supplier_data = NoSupplier
    /\ articles = <<>>
    /\ article_index = 1
    /\ all_products = <<>>
    /\ console = {}

SearchAmazonCall ==
    /\ pc = "search_amazon_product"
    /\ amazon_data' = search_amazon_product("SERPER_API_KEY" \in env, amazon_response)
    /\ pc' = "return_amazon"
    /\ UNCHANGED << amazon_response, supplier_response, supplier_data, storeVars,
                    dedupVars, scoreVars, marginVars, categoryVars, runVars,
                    reportVars, exportVars, updateVars, filterVars, rankVars >>

SearchSupplierCall ==
    /\ pc = "search_aliexpress_supplier"
    /\ supplier_data' = search_aliexpress_supplier("SERPER_API_KEY" \in env,
                                                   supplier_response)
    /\ pc' = "return_supplier"
    /\ UNCHANGED << amazon_response, supplier_response, amazon_data, storeVars,
                    dedupVars, scoreVars, marginVars, categoryVars, runVars,
                    reportVars, exportVars, updateVars, filterVars, rankVars >>

InitSearch == StoreIdle /\ DedupIdle /\ ScoreIdle /\ MarginIdle /\ CategoryIdle
                 /\ ReportIdle /\ SearchInit /\ FilterIdle /\ RankIdle
                 /\ csv = <<>>
                 /\ update_args = [ row_number |-> 0, new_status |-> "", notes |-> "" ]
                 /\ update_result = FALSE
NextSearch == SearchAmazonCall \/ SearchSupplierCall
SpecSearch == InitSearch /\ [][NextSearch]_vars

(***************************************************************************)
(* A run of one keyword-filtered extractor over a feed.  The titles are    *)
(* built from up to MaxTextPieces pieces: keywords in several cases, the   *)
(* two halves of a keyword of two words, the Ask HN prefix; the            *)
(* bodies are empty, short or longer than the 80 characters asked of a     *)
(* comment, with a keyword or without.  The item that carries the title    *)
(* comes after up to MaxFeed - 1 other items.                              *)
(***************************************************************************)
TextPieces ==
    { << "F", "r", "u", "s", "t", "r", "a", "t", "e", "d" >>,
      << "N", "E", "E", "D" >>,
      << " ", "h", "e", "l", "p" >>,
      << "A", "s", "k", " ", "H", "N", ":" >>,
      << " ", "P", "r", "o", "b", "l", "e", "m" >> }

FeedTitles == { Concat(parts) : parts \in SeqsUpTo(TextPieces, MaxTextPieces) }

LongBody == << "W", "e", " ", "m", "o", "v", "e", "d", " ", "t", "h", "e", " ", "w", "h", "o", "l", "e", " ", "b", "i", "l", "l", "i", "n", "g", " ", "s", "t", "a", "c", "k", " ", "t", "o", " ", "a", " ", "n", "e", "w", " ", "v", "e", "n", "d", "o", "r", " ", "l", "a", "s", "t", " ", "m", "o", "n", "t", "h", " ", "a", "n", "d", " ", "i", "t", " ", "w", "e", "n", "t", " ", "f", "i", "n", "e", " ", "s", "o", " ", "f", "a", "r", "." >>
LongBodyWithKeyword == << "W", "e", " ", "m", "o", "v", "e", "d", " ", "t", "h", "e", " ", "w", "h", "o", "l", "e", " ", "b", "i", "l", "l", "i", "n", "g", " ", "s", "t", "a", "c", "k", " ", "t", "o", " ", "a", " ", "n", "e", "w", " ", "v", "e", "n", "d", "o", "r", " ", "l", "a", "s", "t", " ", "m", "o", "n", "t", "h", " ", "a", "n", "d", " ", "I", " ", "S", "t", "r", "u", "g", "g", "l", "e", " ", "w", "i", "t", "h", " ", "i", "t", " ", "d", "a", "i", "l", "y", "." >>

FeedBodies == { << >>, << "I", " ", "s", "t", "r", "u", "g", "g", "l", "e" >>, LongBody, LongBodyWithKeyword }

KindsOf(name) ==
    CASE name = "scrape_reddit"       -> { "post", "comment" }
      [] name = "scrape_indiehackers" -> { "feed-item" }
      [] name = "scrape_devto"        -> { "article" }
      [] name = "scrape_hackernews"   -> { "story", "job" }

FeedItems(name) ==
    { FeedItem(kind, title, body, "A") :
        kind \in KindsOf(name), title \in FeedTitles, body \in FeedBodies }

\* items ahead of the one that carries the title: one every extractor keeps,
\* with the same URL, and one no extractor keeps
LeadingFeedItems(name) ==
    { FeedItem(CHOOSE kind \in KindsOf(name) : kind # "job", << "B", "i", "g", " ", "p", "r", "o", "b", "l", "e", "m", " ", "w", "i", "t", "h", " ", "r", "e", "v", "e", "n", "u", "e" >>, LongBodyWithKeyword, "A"),
      FeedItem(CHOOSE kind \in KindsOf(name) : kind # "job", << "R", "e", "l", "e", "a", "s", "e", " ", "n", "o", "t", "e", "s" >>, << >>, "B") }

FilterInit ==
    /\ extractor \in Extractors
    /\ feed \in { Append(leading, item) :
                    leading \in SeqsUpTo(LeadingFeedItems(extractor), MaxFeed - 1),
                    item \in FeedItems(extractor) }
    /\ results = <<>>
    /\ seen_urls = {}
    /\ unique_results = <<>>
    /\ pos = 1
    /\ returned = <<>>
    /\ pc = "scrape"

\* one pass of the loop over the items of the feed
FilterStep ==
    /\ pc = "scrape"
    /\ pos <= Len(feed)
    /\ results' = IF keeps(extractor, feed[pos])
                  THEN Append(results, record_of(extractor, feed[pos]))
                  ELSE results
    /\ pos' = pos + 1
    /\ UNCHANGED << seen_urls, unique_results, returned, extractor, feed, pc,
                    storeVars, scoreVars, marginVars, categoryVars, runVars,
                    reportVars, exportVars, updateVars, searchVars, rankVars >>

FilterReturn ==
    /\ pc = "scrape"
    /\ pos > Len(feed)
    /\ returned' = scrape_return(extractor, results)
    /\ pc' = "returned"
    /\ UNCHANGED << results, seen_urls, unique_results, pos, extractor, feed,
                    storeVars, scoreVars, marginVars, categoryVars, runVars,
                    reportVars, exportVars, updateVars, searchVars, rankVars >>

InitFilter == StoreIdle /\ FilterInit /\ ScoreIdle /\ MarginIdle /\ CategoryIdle
                 /\ RunIdle /\ ReportIdle /\ SearchIdle /\ RankIdle
                 /\ csv = <<>>
                 /\ update_args = [ row_number |-> 0, new_status |-> "", notes |-> "" ]
                 /\ update_result = FALSE
NextFilter == FilterStep \/ FilterReturn
SpecFilter == InitFilter /\ [][NextFilter]_vars

(***************************************************************************)
(* One ranking: create_google_doc sorting the data points of a run, or a   *)
(* script run of the dashboard sorting the rows its filters let through.   *)
(***************************************************************************)
RankedItems ==
    [ title : { "a", "b" }, key : { "upvotes", "score" }, votes : { 1, 3 },
      comments : { 0, 2 } ]

\* more data points than the listing takes
LongSummary ==
    [ i \in 1..(TopDiscussions + 2) |->
        [ title |-> "a", key |-> "score", votes |-> i % 4, comments |-> 0 ] ]

RankedRows ==
    { [ BlankRow EXCEPT !.date_added = DateText, !.product_name = name,
                        !.category = "Other", !.country = "USA",
                        !.overall_score = score, !.status = status ] :
        name \in { DogLeash, DeskLamp }, score \in { 40, 60, 80 },
        status \in { "pending", "approved" } }

RankInit ==
    /\ pc \in { "create_google_doc", "dashboard" }
    /\ IF pc = "create_google_doc"
       THEN /\ data_summary \in SeqsUpTo(RankedItems, MaxRanked) \cup { LongSummary }
            /\ sheet = <<>>
       ELSE /\ data_summary = <<>>
            /\ sheet \in SeqsUpTo(RankedRows, MaxRanked)
    /\ sorted_data = <<>>
    /\ filtered_df = <<>>
    /\ view = [ r \in Reviewers |-> NoView ]
    /\ last_call = HistoryOff

\* create_google_doc, lines 356-361
RankDiscussions ==
    /\ pc = "create_google_doc"
    /\ sorted_data' = Take(sorted_reverse(data_summary), TopDiscussions)
    /\ pc' = "listed"
    /\ UNCHANGED << data_summary, filtered_df, storeVars, dedupVars, scoreVars,
                    marginVars, categoryVars, runVars, reportVars, exportVars,
                    updateVars, searchVars, filterVars >>

\* streamlit_app.py, lines 119-165: the table, the filters, the sort
RankProducts ==
    /\ pc = "dashboard"
    /\ LET df == load_products(sheet)
           countries  == { df[i].country : i \in 1..Len(df) }
           categories == { df[i].category : i \in 1..Len(df) }
       IN  \E status_filter \in SUBSET Statuses, min_score \in MinScoreChoices :
              filtered_df' \in
                  sort_values(df, Displayed(df, status_filter, countries, categories,
                                            min_score))
    /\ pc' = "displayed"
    /\ UNCHANGED << data_summary, sorted_data, storeVars, dedupVars, scoreVars,
                    marginVars, categoryVars, runVars, reportVars, exportVars,
                    updateVars, searchVars, filterVars >>

InitRank == RankInit /\ DedupIdle /\ ScoreIdle /\ MarginIdle /\ CategoryIdle
               /\ RunIdle /\ ReportIdle /\ SearchIdle /\ FilterIdle
               /\ csv = <<>>
               /\ update_args = [ row_number |-> 0, new_status |-> "", notes |-> "" ]
               /\ update_result = FALSE
NextRank == RankDiscussions \/ RankProducts
SpecRank == InitRank /\ [][NextRank]_vars

(***************************************************************************)
(* One pass of the loop over product names of process_products (lines      *)
(* 323-372) step by step, for a product name that is a string: the two     *)
(* searches on what the search service answers, the margins, the margin    *)
(* test, the score.                                                        *)
(***************************************************************************)
\* a price of more digits than a float holds
HugePrice == [ i \in 1..(FloatDigits + 1) |-> "9" ]

AmazonSnippets ==
    { << "$" >> \o HugePrice,
      << "$", "5", "0" >>,
      << "$", "6", "0" >>,
      << "$", "5", "0", "0" >>,
      << "$", "1", "9", ".", "9", "9" >>,
      << "$", "7", ".", "5" >>,
      << "$", "0" >>,
      << "I", "n", " ", "s", "t", "o", "c", "k" >> }

SupplierSnippets ==
    { << "$", "3", "1" >>,
      << "$", "1", "0" >>,
      << "$", "5", "5" >>,
      << "$", "4", "5", "0" >>,
      << "U", "S", " ", "$", "3" >>,
      << "$", "0" >>,
      << "F", "r", "e", "e", " ", "s", "h", "i", "p", "p", "i", "n", "g" >> }

AmazonResponses ==
    { NoResponse, Response(<<>>) }
      \cup { Response(<< OrganicItem(AmazonProductLink, snippet, LeashTitle) >>) :
               snippet \in AmazonSnippets }

SupplierResponses ==
    { NoResponse, Response(<<>>) }
      \cup { Response(<< OrganicItem(AliexpressLink, snippet, LeashTitle) >>) :
               snippet \in SupplierSnippets }

PipelineInit ==
    /\ env \in SUBSET { "SERPER_API_KEY" }
    /\ articles \in { << [ title |-> Some("Top pets"), url |-> Some("u1"),
                           country |-> country ] >> : country \in { "USA", "UAE" } }
    /\ article_index = 1
    /\ product_name \in { DogLeash, DeskLamp }
    /\ category = ""
    /\ amazon_response \in AmazonResponses
    /\ supplier_response \in SupplierResponses
    /\ amazon_data = NoListing
    /\ supplier_data = NoSupplier
    /\ amazon_price = 0
    /\ supplier_price = 0
    /\ margins = NoMargins
    /\ product_data = << >>
    /\ overall_score = 0
    /\ all_products = <<>>
    /\ console = {}
    /\ pc = "search_amazon"

\* a loop body that goes on to the supplier search without a listing
PipelineSearchAmazon_goes_on ==
    /\ pc = "search_amazon"
    /\ amazon_data' = search_amazon_product("SERPER_API_KEY" \in env, amazon_response)
    /\ console' = console \cup { IF amazon_data'.found THEN "Amazon: $"
                                 ELSE "No Amazon listing found" }
    /\ pc' = "search_supplier"
    /\ UNCHANGED << env, articles, article_index, all_products, amazon_response,
                    supplier_response, supplier_data, storeVars, dedupVars,
                    scoreVars, marginVars, categoryVars, reportVars, exportVars,
                    updateVars, filterVars, rankVars >>

\* lines 326-332
PipelineSearchAmazon ==
    /\ pc = "search_amazon"
    /\ amazon_data' = search_amazon_product("SERPER_API_KEY" \in env, amazon_response)
    /\ IF ~amazon_data'.found
       THEN /\ console' = console \cup { "No Amazon listing found" }
            /\ pc' = "next_product"                              \* continue
       ELSE /\ console' = console \cup { "Amazon: $" }
            /\ pc' = "search_supplier"
    /\ UNCHANGED << env, articles, article_index, all_products, amazon_response,
                    supplier_response, supplier_data, storeVars, dedupVars,
                    scoreVars, marginVars, categoryVars, reportVars, exportVars,
                    updateVars, filterVars, rankVars >>

\* lines 334-340
PipelineSearchSupplier ==
    /\ pc = "search_supplier"
    /\ supplier_data' = search_aliexpress_supplier("SERPER_API_KEY" \in env,
                                                   supplier_response)
    /\ IF ~supplier_data'.found
       THEN /\ console' = console \cup { "No AliExpress supplier found" }
            /\ pc' = "next_product"                              \* continue
       ELSE /\ console' = console \cup { "AliExpress: $" }
            /\ pc' = "margins"
    /\ UNCHANGED << env, articles, article_index, all_products, amazon_response,
                    supplier_response, amazon_data, storeVars, dedupVars,
                    scoreVars, marginVars, categoryVars, reportVars, exportVars,
                    updateVars, filterVars, rankVars >>

\* lines 342-348
PipelineMargins ==
    /\ pc = "margins"
    /\ amazon_price' = amazon_data.amazon_price
    /\ supplier_price' = supplier_data.supplier_price
    /\ margins' \in calculate_margins(amazon_data.amazon_price,
                                      supplier_data.supplier_price)
    /\ console' = console \cup { "Margin:" }
    /\ pc' = "filter"
    /\ UNCHANGED << env, articles, article_index, all_products, storeVars,
                    dedupVars, scoreVars, categoryVars, reportVars, exportVars,
                    updateVars, searchVars, filterVars, rankVars >>

\* lines 350-365: the margin test and the combined record
PipelineFilter ==
    /\ pc = "filter"
    /\ IF Less(margins.margin_percent, Pct(25))
       THEN /\ console' = console \cup { "Margin too low, skipping" }
            /\ pc' = "next_product"                              \* continue
            /\ UNCHANGED << product_data, category >>
       ELSE /\ category' = _guess_category(product_name)
            /\ product_data' =
                  [ product_name      |-> amazon_data.product_name,
                    amazon_price      |-> amazon_data.amazon_price,
                    supplier_price    |-> supplier_data.supplier_price,
                    supplier_url      |-> supplier_data.supplier_url,
                    profit            |-> margins.profit,
                    margin_percent    |-> margins.margin_percent,
                    total_cost        |-> margins.total_cost,
                    recommended_price |-> margins.recommended_price,
                    country           |-> articles[article_index].country,
                    category          |-> category' ]
            /\ pc' = "score"
            /\ UNCHANGED console
    /\ UNCHANGED << overall_score, product_name >>
    /\ UNCHANGED << env, articles, article_index, all_products, storeVars,
                    dedupVars, marginVars, reportVars, exportVars, updateVars,
                    searchVars, filterVars, rankVars >>

\* lines 367-372
PipelineScore ==
    /\ pc = "score"
    /\ overall_score' = score_product_opportunity(product_data)
    /\ product_data' = [ k \in DOMAIN product_data \cup { "overall_score" } |->
                           IF k = "overall_score" THEN overall_score'
                           ELSE product_data[k] ]
    /\ console' = console \cup { "Score:" }
    /\ all_products' = Append(all_products, product_data')
    /\ pc' = "next_product"
    /\ UNCHANGED << env, articles, article_index, storeVars, dedupVars,
                    marginVars, categoryVars, reportVars, exportVars, updateVars,
                    searchVars, filterVars, rankVars >>

InitPipeline == StoreIdle /\ DedupIdle /\ ReportIdle /\ FilterIdle /\ RankIdle
                   /\ PipelineInit
                   /\ csv = <<>>
                   /\ update_args = [ row_number |-> 0, new_status |-> "", notes |-> "" ]
                   /\ update_result = FALSE
NextPipeline ==
    \/ PipelineSearchAmazon
    \/ PipelineSearchSupplier
    \/ PipelineMargins
    \/ PipelineFilter
    \/ PipelineScore
SpecPipeline == InitPipeline /\ [][NextPipeline]_vars

(***************************************************************************)
(* Claims about the deduplication (specification SpecDedup)                *)
(***************************************************************************)
\* a is b with some elements left out, the others in b's order
RECURSIVE IsSubseq(_, _)
IsSubseq(a, b) ==
    IF a = <<>> THEN TRUE
    ELSE IF b = <<>> THEN FALSE
    ELSE IF Head(a) = Head(b) THEN IsSubseq(Tail(a), Tail(b))
    ELSE IsSubseq(a, Tail(b))

\* the position of the first record of seq with this URL
FirstWithUrl(seq, u) ==
    CHOOSE i \in 1..Len(seq) :
        /\ seq[i].url = u
        /\ \A j \in 1..(i - 1) : seq[j].url # u

DedupContract(out, in) ==
    /\ \A i, j \in 1..Len(out) : out[i].url = out[j].url => i = j
    /\ IsSubseq(out, in)
    /\ \A i \in 1..Len(out) : out[i] = in[FirstWithUrl(in, out[i].url)]
    /\ Len(out) <= Len(in)

\* C1: when the loop has run over the whole input, its output holds no two
\* records with the same URL, is a subsequence of the input, holds for each URL
\* of the input the first input record that has it, and is never longer than
\* the input; URLs A, A, B yield exactly two records, A then B.  The list
\* scrape_reddit returns has the same properties.
C1_DedupFirstOccurrence ==
    pc = "returned" =>
        /\ DedupContract(unique_results, results)
        /\ { unique_results[i].url : i \in 1..Len(unique_results) }
              = { results[i].url : i \in 1..Len(results) }
        /\ DedupContract(returned, results)
        /\ (Len(results) = 3 /\ results[1].url = "A" /\ results[2].url = "A"
                /\ results[3].url = "B")
              => returned = << results[1], results[3] >>

\* C1 witness: the input held URLs A, A, B (the two A records differing) and
\* two records were returned.
C1_Witness ==
    /\ pc = "returned"
    /\ Len(results) = 3
    /\ results[1].url = "A" /\ results[2].url = "A" /\ results[3].url = "B"
    /\ results[1] # results[2]
    /\ Len(returned) = 2

(***************************************************************************)
(* Claims about the status ledger and the rows of the sheet                *)
(* (specifications Spec and SpecLedger)                                    *)
(***************************************************************************)
\* the position in `sheet` of the row a session's display loop is at
RowOf(r) == view[r].idx + 1

\* C2: for every stored record holding notes n, setting its status to approved
\* and then back to pending, neither call passing notes, leaves it with status
\* pending and notes n.  Stated on the second call: a Revert that directly
\* follows an approval of the same row, made without notes when the row held n.
C2_NotesSurviveApproveRevert ==
    [][ \A r \in Reviewers :
          ( /\ RevertApproved(r)
            /\ last_call.made
            /\ last_call.row_number = view[r].idx
            /\ last_call.new_status = "approved"
            /\ ~last_call.notes_passed )
          => /\ sheet'[RowOf(r)].status = "pending"
             /\ sheet'[RowOf(r)].notes = last_call.notes_before ]_vars

\* the session sees the row as the sheet now holds it
FreshView(r) ==
    /\ view[r].loaded
    /\ sheet[RowOf(r)] = view[r].row

\* a click of reviewer r that leaves the row of its display loop with status t
Moves(r, t) == Click(r) /\ sheet'[RowOf(r)].status = t

\* C3 as stated: for every ordered pair of distinct statuses (s, t) the
\* dashboard offers, on a displayed record whose status is s, an action that
\* moves it to t in one step.
C3_EveryPairInOneStep ==
    \A r \in Reviewers :
        FreshView(r) =>
            \A t \in Statuses \ { view[r].row.status } : ENABLED Moves(r, t)

\* C3 amended: on a record displayed with the status s the sheet holds, an
\* action that moves it to t # s in one step is offered exactly when s or t is
\* pending (Approve and Reject on a pending record, Revert on an approved or a
\* rejected one); approved -> rejected and rejected -> approved take two steps,
\* through pending.
C3_OneStepThroughPending ==
    \A r \in Reviewers :
        FreshView(r) =>
            \A t \in Statuses \ { view[r].row.status } :
                ENABLED Moves(r, t) <=> (view[r].row.status = "pending" \/ t = "pending")

\* C3 witness: a session displays a rejected record as the sheet holds it, while
\* another record of the sheet is approved.
C3_Witness ==
    \E r \in Reviewers :
        /\ FreshView(r)
        /\ view[r].row.status = "rejected"
        /\ \E i \in 1..Len(sheet) : sheet[i].status = "approved"

\* C4: every record enters the sheet with status pending, no record leaves it,
\* and the status of a stored record changes only in a step that is a reviewer's
\* update_product_status call on that row: a bot run changes no stored status.
C4_StatusOnlyByReviewer ==
    [][ /\ Len(sheet') >= Len(sheet)
        /\ \A i \in 1..Len(sheet) :
              sheet'[i].status # sheet[i].status =>
                  \E r \in Reviewers : Click(r) /\ RowOf(r) = i
        /\ \A i \in (Len(sheet) + 1)..Len(sheet') :
              sheet'[i].status = "pending" ]_vars

\* C4 witness: a bot run has appended a pending record below a record a
\* reviewer approved.
C4_Witness ==
    /\ Len(sheet) = 2
    /\ sheet[1].status = "approved"
    /\ sheet[2].status = "pending"
    /\ \A r \in Reviewers : ~view[r].loaded

\* C5: Save Note changes only the notes of the record: the stored status right
\* after the save equals the stored status right before it, whatever another
\* reviewer did to the record since this session loaded the table.
C5_SaveNoteKeepsStatus ==
    [][ \A r \in Reviewers :
          SaveNote(r) => sheet'[RowOf(r)].status = sheet[RowOf(r)].status ]_vars

ScoreFields == { "overall_score", "demand_score", "competition_score",
                 "margin_score", "legal_risk_score" }

\* C7: every score field of every row written to the sheet (overall, demand,
\* competition, margin, legal-risk) is an integer in [0,100].
C7_RowScoresInRange ==
    \A i \in 1..Len(sheet) : \A f \in ScoreFields : sheet[i][f] \in 0..100

(***************************************************************************)
(* Claims about score_product_opportunity (specification SpecScore)        *)
(***************************************************************************)
\* C6: whatever margin_percent, profit and price a record holds (missing, zero
\* and negative values included), score_product_opportunity returns an integer
\* between 0 and 100 inclusive.
C6_ScoreInRange ==
    pc = "return" => overall_score \in 0..100

\* C6 witness: a scored record with a missing margin, a negative profit and a
\* price of zero.
C6_Witness ==
    /\ pc = "return"
    /\ "margin_percent" \notin DOMAIN product_data
    /\ "profit" \in DOMAIN product_data /\ product_data["profit"] < 0
    /\ "amazon_price" \in DOMAIN product_data /\ product_data["amazon_price"] = 0
    /\ overall_score = 0

\* The record pd with its margin_percent set to m, profit and price as they are.
WithMargin(pd, m) ==
    [ k \in DOMAIN pd \cup {"margin_percent"} |->
        IF k = "margin_percent" THEN m ELSE pd[k] ]

\* C8: the score is monotone in the margin: a record with the same profit and
\* the same price and a margin_percent at least as large never scores less
\* than the record just scored.
C8_ScoreMonotoneInMargin ==
    pc = "return" =>
        \A m \in MarginInputs :
            m >= Get(product_data, "margin_percent", 0) =>
                score_product_opportunity(WithMargin(product_data, m)) >= overall_score

\* C8 witness: a scored record whose margin sits just under a bucket threshold,
\* so that a larger margin with the same profit and price changes the bucket.
C8_Witness ==
    /\ pc = "return"
    /\ Get(product_data, "margin_percent", 0) = Pct(40) - 1
    /\ Get(product_data, "profit", 0) = Usd(10)
    /\ Get(product_data, "amazon_price", 0) = Usd(20)
    /\ overall_score = 60

\* The three buckets as the specification tabulates them: each threshold that
\* is met (inclusively) is worth ten points; the price bands are nested.
MarginBucket(m) == 10 * Cardinality({ t \in {20, 30, 40, 50} : m >= Pct(t) })
ProfitBucket(p) == 10 * Cardinality({ t \in {10, 20, 30} : p >= Usd(t) })
PriceBucket(x)  == 10 * Cardinality({ b \in { <<0, 0>>, <<10, 100>>, <<20, 80>> } :
                        IF b = <<0, 0>> THEN x > 0
                        ELSE Usd(b[1]) <= x /\ x <= Usd(b[2]) })

\* C9: the score is the sum of the margin bucket (>=50:40, >=40:30, >=30:20,
\* >=20:10, else 0), the profit bucket (>=30:30, >=20:20, >=10:10, else 0) and
\* the price-band bucket (20..80:30, 10..100:20, >0:10, else 0), capped at 100,
\* every threshold inclusive.
C9_ScoreIsBucketSum ==
    pc = "return" =>
        overall_score =
            Min(MarginBucket(Get(product_data, "margin_percent", 0))
                + ProfitBucket(Get(product_data, "profit", 0))
                + PriceBucket(Get(product_data, "amazon_price", 0)), 100)

\* C9 witness: a record sitting exactly on the thresholds 50%, $30 and $80
\* scores the full 100.
C9_Witness ==
    /\ pc = "return"
    /\ Get(product_data, "margin_percent", 0) = Pct(50)
    /\ Get(product_data, "profit", 0) = Usd(30)
    /\ Get(product_data, "amazon_price", 0) = Usd(80)
    /\ overall_score = 100

(***************************************************************************)
(* Claims about calculate_margins (specification SpecMargin)               *)
(***************************************************************************)
\* The exact quantities, in 1/100 of a cent
ExactTotal4  == 100 * (supplier_price + Usd(5)) + 3 * amazon_price
ExactProfit4 == 100 * amazon_price - ExactTotal4

\* C10 as stated: for every retail price r > 0 and supplier price s the result
\* holds exactly total_cost = s + 5 + 0.03*r, profit = r - total_cost,
\* margin_percent = profit / r * 100 and recommended_price = 0.9*r.
C10_MarginsExact ==
    (pc = "return" /\ amazon_price > 0) =>
        /\ 100 * margins.total_cost = ExactTotal4
        /\ margins.profit = amazon_price - margins.total_cost
        /\ margins.margin_percent * amazon_price = 100 * 100 * margins.profit
        /\ 10 * margins.recommended_price = 9 * amazon_price

\* C10 amended: for r > 0 each returned value is the stated quantity rounded to
\* two decimal places (so within half a unit of the last place of s + 5 + 0.03*r,
\* of r - (s + 5 + 0.03*r), of that profit / r * 100 and of 0.9*r, each computed
\* from the unrounded intermediate values); (100, 40) gives exactly
\* total_cost 48, profit 52, margin_percent 52 and recommended_price 90.
C10_MarginsRounded ==
    (pc = "return" /\ amazon_price > 0) =>
        /\ 2 * Abs(100 * margins.total_cost - ExactTotal4) <= 100
        /\ 2 * Abs(100 * margins.profit - ExactProfit4) <= 100
        /\ 2 * Abs(margins.margin_percent * amazon_price - 100 * ExactProfit4)
              <= amazon_price
        /\ 2 * Abs(10 * margins.recommended_price - 9 * amazon_price) <= 10
        /\ (amazon_price = Usd(100) /\ supplier_price = Usd(40)) =>
              margins = [ total_cost |-> Usd(48), profit |-> Usd(52),
                          margin_percent |-> Pct(52), recommended_price |-> Usd(90) ]

\* C10 witness: the call (100, 40) has returned total_cost 48.
C10_Witness ==
    /\ pc = "return"
    /\ amazon_price = Usd(100)
    /\ supplier_price = Usd(40)
    /\ margins.total_cost = Usd(48)
    /\ margins.recommended_price = Usd(90)

\* C11: for a retail price of zero and any supplier price the call of
\* calculate_margins completes (it has a result to return) and the result holds
\* margin_percent = 0: the division by the retail price is made only when the
\* price is positive.
C11_ZeroPriceMarginIsZero ==
    /\ pc = "call" => ENABLED MarginCall
    /\ (pc = "return" /\ amazon_price = 0) =>
          /\ margins.margin_percent = 0
          /\ margins.profit = -(supplier_price + Usd(5))

\* C11 witness: the call (0, 10) has returned, with a loss of 15 and margin 0.
C11_Witness ==
    /\ pc = "return"
    /\ amazon_price = 0
    /\ supplier_price = Usd(10)
    /\ margins.profit = -Usd(15)
    /\ margins.margin_percent = 0

(***************************************************************************)
(* Claims about _guess_category (specification SpecCategory)               *)
(***************************************************************************)
Labels == << "Pet Supplies", "Kitchen", "Home & Garden", "Fitness", "Baby Products" >>

KeywordsOf(label) ==
    CASE label = "Pet Supplies"  -> PetWords
      [] label = "Kitchen"       -> KitchenWords
      [] label = "Home & Garden" -> HomeWords
      [] label = "Fitness"       -> FitnessWords
      [] label = "Baby Products" -> BabyWords

\* the word occurs in the name at some position, letter by letter up to case
OccursIgnoringCase(word, name) ==
    \E i \in 0..(Len(name) - Len(word)) :
        \A k \in 1..Len(word) : LowerChar(name[i + k]) = LowerChar(word[k])

\* the positions in Labels of the categories a keyword of which the name contains
Matched(name) ==
    { i \in 1..Len(Labels) : \E w \in KeywordsOf(Labels[i]) : OccursIgnoringCase(w, name) }

\* C12: for every product name _guess_category returns exactly one of the six
\* labels; when the name contains keywords of several categories the result is
\* the earliest of them in the order Pet Supplies, Kitchen, Home & Garden,
\* Fitness, Baby Products; it is Other exactly when the name contains no
\* keyword; a keyword matches as a substring, whatever the case of the letters.
C12_FirstMatchingCategory ==
    pc = "return" =>
        /\ category \in { Labels[i] : i \in 1..Len(Labels) } \cup { "Other" }
        /\ Matched(product_name) # {} =>
              category = Labels[CHOOSE i \in Matched(product_name) :
                                  \A j \in Matched(product_name) : i <= j]
        /\ category = "Other" <=> Matched(product_name) = {}

\* C12 witness: the name "BowlDog" holds a kitchen keyword ahead of a pet
\* keyword, in capitals, and was labelled Pet Supplies.
C12_Witness ==
    /\ pc = "return"
    /\ product_name = << "B", "o", "w", "l", "D", "o", "g" >>
    /\ category = "Pet Supplies"

\* C13: "Stainless Steel Dog Leash" is labelled Pet Supplies, "Ceramic Coffee
\* Mug" Kitchen and "Wireless Mouse" Other.
C13_DocumentedExamples ==
    pc = "return" =>
        /\ product_name = StainlessSteelDogLeash => category = "Pet Supplies"
        /\ product_name = CeramicCoffeeMug => category = "Kitchen"
        /\ product_name = WirelessMouse => category = "Other"

(***************************************************************************)
(* Claims about a run of EnhancedDropshippingBot (specification SpecRun)   *)
(***************************************************************************)
\* C14: in a batch run a failure on one source, article or product (a search
\* result without title or link, an answer of the language model that is not a
\* list of strings) never aborts the batch: no exception leaves the loop of
\* process_products, and the run ends with the products of the items that did
\* not fail.
C14_BatchNeverAborts ==
    /\ pc # "process_raised"
    /\ pc = "done" => article_index = Len(Take(articles, ArticlesProcessed)) + 1

\* C15: a missing credential (search key, service account, sheet id) never
\* makes construction or the run fail: the feature that needs it is skipped
\* with an empty result and the run goes on to its end.
C15_MissingCredentialSkipsFeature ==
    /\ pc # "construct_raised"
    /\ (pc = "done" /\ "SERPER_API_KEY" \notin env) =>
          (articles = <<>> /\ all_products = <<>>)
    /\ (pc = "done" /\ "PRODUCT_SHEET_ID" \notin env) => sheet = <<>>

\* the answer of the language model is not a list of product names
Malformed(answer) ==
    \/ ~answer.is_list
    \/ \E i \in 1..Len(answer.items) : ~answer.items[i].is_str

\* C21: when the output of the language model for a batch (an article) is
\* malformed, no exception is raised, and every record of that batch is given
\* demand=0, competition=0, margin=0 and legal_risk=50 (with the reasoning
\* "Scoring failed").  Stated on the pass of the loop over that article and on
\* the score cells of the rows the products it adds are saved as.
C21_MalformedRaterOutputFallsBack ==
    [][ ( /\ ProcessArticle
          /\ articles[article_index].title.some
          /\ Malformed(articles[article_index].answer) )
        => /\ pc' # "process_raised"
           /\ \A i \in (Len(all_products) + 1)..Len(all_products') :
                 LET row == SheetRow(all_products'[i])
                 IN  /\ row.demand_score = 0
                     /\ row.competition_score = 0
                     /\ row.margin_score = 0
                     /\ row.legal_risk_score = 50 ]_vars

(***************************************************************************)
(* Claim about the price extraction (specification SpecSearch)             *)
(***************************************************************************)
\* the positions in the list of the patterns that match the text somewhere
MatchingPatterns(patterns, text) ==
    { k \in 1..Len(patterns) : re_search(patterns[k], text).found }

\* the number the first of the matching patterns captured
FirstPatternPrice(patterns, text) ==
    float(re_search(patterns[SetMin(MatchingPatterns(patterns, text))], text).group)

\* the organic results search_amazon_product takes a price from: a product
\* page of the domain with a pattern that matches and a price that is not zero
AmazonPriced(organic) ==
    { n \in 1..Len(organic) :
        /\ Contains(AmazonDomain, organic[n].link)
        /\ Contains(DpPath, organic[n].link)
        /\ MatchingPatterns(amazon_price_patterns, PriceText(organic[n])) # {}
        /\ FirstPatternPrice(amazon_price_patterns, PriceText(organic[n])) # 0 }

SupplierPriced(organic) ==
    { n \in 1..Len(organic) :
        /\ Contains(AliexpressDomain, organic[n].link)
        /\ MatchingPatterns(aliexpress_price_patterns, PriceText(organic[n])) # {} }

\* C22: the price a search extracts from a search result is the number
\* captured by the first pattern, in the order of the list, that matches the
\* text snippet + ' ' + title at all, whatever the later patterns would
\* capture; the result comes from the first search result the search takes a
\* price from, and when no pattern matches in any search result there is no
\* price.
C22_FirstMatchingPatternWins ==
    /\ (pc = "return_amazon" /\ amazon_response.ok) =>
          LET organic == amazon_response.organic
              priced  == AmazonPriced(organic)
          IN  /\ amazon_data.found <=> priced # {}
              /\ amazon_data.found =>
                    amazon_data.amazon_price =
                        FirstPatternPrice(amazon_price_patterns,
                                          PriceText(organic[SetMin(priced)]))
              /\ (\A n \in 1..Len(organic) :
                     MatchingPatterns(amazon_price_patterns, PriceText(organic[n])) = {})
                    => ~amazon_data.found
    /\ (pc = "return_supplier" /\ supplier_response.ok) =>
          LET organic == supplier_response.organic
              priced  == SupplierPriced(organic)
          IN  /\ supplier_data.found <=> priced # {}
              /\ supplier_data.found =>
                    supplier_data.supplier_price =
                        FirstPatternPrice(aliexpress_price_patterns,
                                          PriceText(organic[SetMin(priced)]))
              /\ (\A n \in 1..Len(organic) :
                     MatchingPatterns(aliexpress_price_patterns, PriceText(organic[n])) = {})
                    => ~supplier_data.found

\* C22 witness: the snippet "24.5 USD$19.99 " of a product page, after a
\* listing priced at zero that was passed over: the second pattern matches
\* first in the text, and the price is the 19.99 of the first pattern.
C22_Witness ==
    /\ pc = "return_amazon"
    /\ amazon_response.ok
    /\ Len(amazon_response.organic) = 2
    /\ amazon_response.organic[1].snippet = << "$", "0" >>
    /\ amazon_response.organic[2].snippet = << "2", "4", ".", "5", " ", "U", "S", "D", "$", "1", "9", ".", "9", "9", " " >>
    /\ amazon_data.found
    /\ amazon_data.amazon_price = 1999
    /\ amazon_data.product_name = << "D", "o", "g", " ", "L", "e", "a", "s", "h" >>

(***************************************************************************)
(* Claims about a report run (specification SpecReport)                    *)
(***************************************************************************)
\* C16: when the save of the report fails, whatever the failure of the store
\* call, the run does not crash, the failure is reported, and the analysis
\* text of the run has been shown to the operator when the run ends.
C16_SaveFailureStillShowsAnalysis ==
    /\ pc # "report_raised"
    /\ (pc = "done" /\ analysis # "" /\ ~doc_id.some) =>
          /\ analysis \in console
          /\ \/ "Error creating Google Doc" \in console
             \/ "Google Docs service not available" \in console

(***************************************************************************)
(* Claims about the export (specification SpecExport)                      *)
(***************************************************************************)
\* the positions of the approved rows of the sheet, and the k-th of them
ApprovedPositions == { i \in 1..Len(sheet) : sheet[i].status = "approved" }
NthApproved(k) ==
    CHOOSE i \in ApprovedPositions :
        Cardinality({ j \in ApprovedPositions : j <= i }) = k

\* h is the name in lower case with a hyphen for every blank
IsSlugOf(h, name) ==
    /\ Len(h) = Len(name)
    /\ \A i \in 1..Len(name) :
          h[i] = IF name[i] = " " THEN "-" ELSE LowerChar(name[i])

WithoutDollar(price) == SelectSeq(price, LAMBDA ch : ch # "$")

\* the parts of the claim on the rows exported and on Status, Handle and Tags
ExportRowsContract ==
    /\ Len(csv) = Cardinality(ApprovedPositions)
    /\ \A k \in 1..Len(csv) :
          LET row == sheet[NthApproved(k)]
          IN  /\ csv[k].Title = row.product_name
              /\ csv[k].Status = "draft"
              /\ IsSlugOf(csv[k].Handle, row.product_name)
              /\ csv[k].Tags = << row.category, ", ", row.country, ", Score-" >>
                                  \o NatStr(row.overall_score)

\* C17 as stated: the export holds one row for each approved record of the
\* loaded table, in table order, and none for a pending or rejected record;
\* every exported row has Status draft, Handle the slugified name, Tags
\* "category, country, Score-N" and Variant Price the price with the currency
\* symbol and "N/A" stripped.
C17_ExportStripsPrice ==
    pc = "exported" =>
        /\ ExportRowsContract
        /\ \A k \in 1..Len(csv) :
              LET price == WithoutDollar(sheet[NthApproved(k)].price)
              IN  csv[k].VariantPrice = IF price = NotAvailable THEN << >> ELSE price

\* C17 amended: as stated, except that Variant Price is the price with "$"
\* removed and "N/A" replaced by "0".
C17_ExportOfApprovedRows ==
    pc = "exported" =>
        /\ ExportRowsContract
        /\ \A k \in 1..Len(csv) :
              LET price == WithoutDollar(sheet[NthApproved(k)].price)
              IN  csv[k].VariantPrice = IF price = NotAvailable THEN << "0" >> ELSE price

\* C17 witness: of two rows the second is approved and the first is not; the
\* export holds one row, for "Dog Leash", with handle dog-leash and price 60.0.
C17_Witness ==
    /\ pc = "exported"
    /\ Len(sheet) = 2
    /\ sheet[1].status = "pending"
    /\ sheet[2].status = "approved"
    /\ Len(csv) = 1
    /\ csv[1].Handle = << "d", "o", "g", "-", "l", "e", "a", "s", "h" >>
    /\ csv[1].VariantPrice = << "6", "0", ".", "0" >>

(***************************************************************************)
(* Claims about a call of update_product_status (specification SpecUpdate) *)
(***************************************************************************)
\* C18: a status update addressed to a record that is not in the store (a row
\* index with no stored record) does not return success and leaves the store
\* unchanged: no row is created or modified.
C18_UpdateOfMissingRecordIsNotFound ==
    [][ (UpdateCall /\ update_args.row_number + 1 > Len(sheet)) =>
            (update_result' = FALSE /\ sheet' = sheet) ]_vars

(***************************************************************************)
(* Claim about the stored records (specification Spec)                     *)
(***************************************************************************)
\* C19: once a record is stored, no reviewer update and no bot run changes
\* anything of it but its status and its notes (date, name, category, country,
\* scores, price and link stay as written), no record is removed, and a bot run
\* only adds rows below the rows there are.
C19_StoredRecordKeepsItsData ==
    [][ /\ Len(sheet') >= Len(sheet)
        /\ \A i \in 1..Len(sheet) :
              [ sheet'[i] EXCEPT !.status = sheet[i].status,
                                 !.notes = sheet[i].notes ] = sheet[i] ]_vars

\* C19 witness: the first record was rejected with a note, a later bot run
\* added a second record, and the first still holds the data written for
\* "Dog Leash".
C19_Witness ==
    /\ Len(sheet) = 2
    /\ sheet[1].status = "rejected"
    /\ sheet[1].notes = "n1"
    /\ sheet[1].product_name = DogLeash
    /\ sheet[1].category = "Pet Supplies"
    /\ sheet[1].date_added = DateText
    /\ sheet[1].price = << "$", "6", "0", ".", "0" >>
    /\ sheet[2].status = "pending"
    /\ sheet[2].product_name = DeskLamp

(***************************************************************************)
(* Claim about records without identity (specification SpecDedup)          *)
(***************************************************************************)
\* the positions of seq holding a record that has no usable URL
WithoutIdentity(seq) == { i \in 1..Len(seq) : seq[i].url = NoPermalinkUrl }

\* C20: records that have no usable identity (missing or null URL) are never
\* merged with each other by the deduplication: every such record of the input
\* is kept in the output.
C20_RecordsWithoutIdentityAllKept ==
    pc = "returned" =>
        Cardinality(WithoutIdentity(returned)) = Cardinality(WithoutIdentity(results))

(***************************************************************************)
(* Claims about the keyword filters (specification SpecFilter)             *)
(***************************************************************************)
TriggerWords(name) ==
    CASE name = "scrape_reddit"       -> reddit_keywords
      [] name = "scrape_indiehackers" -> indiehackers_keywords
      [] name = "scrape_devto"        -> devto_keywords
      [] name = "scrape_hackernews"   -> hackernews_keywords

\* the texts of an item its extractor looks at
ComparedTexts(name, item) ==
    CASE name = "scrape_reddit" ->
           IF item.kind = "post" THEN { item.title \o << " " >> \o item.body }
           ELSE { item.body }
      [] name = "scrape_indiehackers" -> { item.title }
      [] name = "scrape_devto"        -> { item.title, item.body }
      [] name = "scrape_hackernews"   -> { item.title, item.body }

HasTrigger(name, item) ==
    \E text \in ComparedTexts(name, item), word \in TriggerWords(name) :
        OccursIgnoringCase(word, text)

AskOrShow(name, item) ==
    /\ name = "scrape_hackernews"
    /\ OccursIgnoringCase(AskHn, item.title) \/ OccursIgnoringCase(ShowHn, item.title)

FeedItemsSeen == { feed[i] : i \in 1..Len(feed) }
ReturnedRecords == { returned[i] : i \in 1..Len(returned) }

\* C23 as stated: every returned record comes from an item with one of the
\* extractor's trigger keywords in its text, whatever the case of the letters,
\* and an item that has none is never in the result.
C23_OnlyKeywordItemsReturned ==
    pc = "returned" =>
        /\ \A rec \in ReturnedRecords :
              \E item \in FeedItemsSeen :
                  rec = record_of(extractor, item) /\ HasTrigger(extractor, item)
        /\ \A item \in FeedItemsSeen :
              ~HasTrigger(extractor, item) => record_of(extractor, item) \notin ReturnedRecords

\* C23 amended: every returned record comes from an item with one of the
\* extractor's trigger keywords in its text, whatever the case of the letters,
\* or, for scrape_hackernews, with "ask hn" or "show hn" in its title; an item
\* that has neither is never in the result, and neither is a Reddit comment of
\* 80 characters or fewer.
C23_OnlyTriggeredItemsReturned ==
    pc = "returned" =>
        /\ \A rec \in ReturnedRecords :
              \E item \in FeedItemsSeen :
                  /\ rec = record_of(extractor, item)
                  /\ HasTrigger(extractor, item) \/ AskOrShow(extractor, item)
        /\ \A item \in FeedItemsSeen :
              \/ ~(HasTrigger(extractor, item) \/ AskOrShow(extractor, item))
              \/ (item.kind = "comment" /\ Len(item.body) <= CommentMinLength)
              => record_of(extractor, item) \notin ReturnedRecords

\* scrape_hackernews was given a story with a keyword in capitals after one it
\* dropped, and returned the one and not the other
C23_Witness ==
    /\ pc = "returned"
    /\ extractor = "scrape_hackernews"
    /\ Len(feed) = 2
    /\ feed[1].title = << "R", "e", "l", "e", "a", "s", "e", " ", "n", "o", "t", "e", "s" >>
    /\ feed[2].title = << "N", "E", "E", "D", " ", "h", "e", "l", "p" >>
    /\ feed[2].kind = "story"
    /\ feed[2].body = << >>
    /\ Len(returned) = 1
    /\ returned[1].title = << "N", "E", "E", "D", " ", "h", "e", "l", "p" >>

(***************************************************************************)
(* Claims about the ranked listings (specification SpecRank)               *)
(***************************************************************************)
\* the records of a list with a given engagement, in the order of the list
WithEngagement(items, k) == SelectSeq(items, LAMBDA x : engagement(x) = k)

IsPrefix(short, long) ==
    Len(short) <= Len(long) /\ SubSeq(long, 1, Len(short)) = short

\* the listing holds records of the input, those of one engagement in the
\* order they have in the input, and leaves out only records that no listed
\* record is behind
ListingOf(listing, input) ==
    /\ \A k \in { engagement(input[i]) : i \in 1..Len(input) }
               \cup { engagement(listing[i]) : i \in 1..Len(listing) } :
          /\ IsPrefix(WithEngagement(listing, k), WithEngagement(input, k))
          /\ ( \E i \in 1..Len(listing) : engagement(listing[i]) < k )
                => WithEngagement(listing, k) = WithEngagement(input, k)
    /\ Len(listing) = Min(Len(input), TopDiscussions)

\* C24: the ranked listing is in descending order of score, records with equal
\* score appear in their original relative order, at most the top N records
\* are listed, and producing the listing leaves the input in its original
\* order.
C24_RankedListingStable ==
    [][ /\ RankDiscussions =>
            /\ \A i, j \in 1..Len(sorted_data') :
                  i < j => engagement(sorted_data'[i]) >= engagement(sorted_data'[j])
            /\ ListingOf(sorted_data', data_summary)
            /\ Len(sorted_data') <= TopDiscussions
            /\ data_summary' = data_summary
        /\ RankProducts =>
            /\ \A i, j \in 1..Len(filtered_df') :
                  /\ i < j => sheet[filtered_df'[i]].overall_score
                                 >= sheet[filtered_df'[j]].overall_score
                  /\ ( i < j /\ sheet[filtered_df'[i]].overall_score
                                   = sheet[filtered_df'[j]].overall_score )
                        => filtered_df'[i] < filtered_df'[j]
            /\ sheet' = sheet ]_vars

(***************************************************************************)
(* Claims about the loop body of process_products (specification           *)
(* SpecPipeline)                                                           *)
(***************************************************************************)
\* C25: process_products keeps a product only if its margin is above 25%.
C25_KeptOnlyAboveQuarter ==
    \A i \in 1..Len(all_products) : all_products[i].margin_percent > Pct(25)

\* what the two searches give for the answers of the search service
AmazonFound == search_amazon_product("SERPER_API_KEY" \in env, amazon_response)
SupplierFound == search_aliexpress_supplier("SERPER_API_KEY" \in env, supplier_response)

MarginsOf(p) ==
    [ profit |-> p.profit, margin_percent |-> p.margin_percent,
      total_cost |-> p.total_cost, recommended_price |-> p.recommended_price ]

\* C26: a product name goes through the Amazon search, the supplier search,
\* the margin calculation, the margin test and the scoring in this order; the
\* pass ends at the first step that finds nothing, with no later step taken
\* and no product; a product in the result carries the prices the searches
\* found, the values calculate_margins gives for exactly these prices, and as
\* overall_score the value of score_product_opportunity for its record.
C26_PipelineOrder ==
    /\ "No Amazon listing found" \in console =>
          /\ ~AmazonFound.found
          /\ console = { "No Amazon listing found" }
          /\ pc = "next_product"
          /\ supplier_data = NoSupplier /\ margins = NoMargins /\ all_products = <<>>
    /\ ( "AliExpress: $" \in console \/ "No AliExpress supplier found" \in console ) =>
          "Amazon: $" \in console /\ AmazonFound.found
    /\ "No AliExpress supplier found" \in console =>
          /\ ~SupplierFound.found
          /\ console = { "Amazon: $", "No AliExpress supplier found" }
          /\ pc = "next_product"
          /\ margins = NoMargins /\ all_products = <<>>
    /\ "Margin:" \in console =>
          /\ "AliExpress: $" \in console /\ SupplierFound.found
          /\ margins \in calculate_margins(AmazonFound.amazon_price,
                                           SupplierFound.supplier_price)
    /\ "Margin too low, skipping" \in console =>
          /\ "Margin:" \in console /\ "Score:" \notin console
          /\ pc = "next_product"
          /\ all_products = <<>>
    /\ "Score:" \in console => "Margin:" \in console /\ Len(all_products) = 1
    /\ all_products # <<>> => "Score:" \in console
    /\ \A i \in 1..Len(all_products) :
          LET p == all_products[i]
          IN  /\ p.amazon_price = AmazonFound.amazon_price
              /\ p.supplier_price = SupplierFound.supplier_price
              /\ MarginsOf(p) \in calculate_margins(p.amazon_price, p.supplier_price)
              /\ MarginsOf(p) = margins
              /\ p.overall_score =
                    score_product_opportunity(Restrict(p, DOMAIN p \ { "overall_score" }))

\* a listing at $60 and a supplier at $10 went through all five steps
C26_Witness ==
    /\ pc = "next_product"
    /\ console = { "Amazon: $", "AliExpress: $", "Margin:", "Score:" }
    /\ Len(all_products) = 1
    /\ all_products[1].amazon_price = Usd(60)
    /\ all_products[1].supplier_price = Usd(10)
    /\ all_products[1].profit = Usd(43) + 20
    /\ all_products[1].overall_score = 100

\* the three parts of the score before min(score, 100)
UncappedScore(p) ==
    ( IF p.margin_percent >= Pct(50) THEN 40
      ELSE IF p.margin_percent >= Pct(40) THEN 30
      ELSE IF p.margin_percent >= Pct(30) THEN 20
      ELSE IF p.margin_percent >= Pct(20) THEN 10 ELSE 0 )
    + ( IF p.profit >= Usd(30) THEN 30
        ELSE IF p.profit >= Usd(20) THEN 20
        ELSE IF p.profit >= Usd(10) THEN 10 ELSE 0 )
    + ( IF Usd(20) <= p.amazon_price /\ p.amazon_price <= Usd(80) THEN 30
        ELSE IF Usd(10) <= p.amazon_price /\ p.amazon_price <= Usd(100) THEN 20
        ELSE IF p.amazon_price > 0 THEN 10 ELSE 0 )

\* C27: every product in the result has an Amazon price above zero and a
\* profit above zero, its overall_score is a multiple of 10 and at least 20,
\* and the cap at 100 has not lowered it.
C27_ResultProductsSound ==
    \A i \in 1..Len(all_products) :
        LET p == all_products[i]
        IN  /\ p.amazon_price > 0
            /\ p.profit > 0
            /\ p.overall_score % 10 = 0
            /\ p.overall_score >= 20
            /\ p.overall_score = UncappedScore(p)

(***************************************************************************)
(* Claims about the runs of the two report bots (specification SpecReport) *)
(***************************************************************************)
DocMessages ==
    { "Google Docs service not available", "Report created",
      "Error creating Google Doc" }

\* C28: in MarketResearchBot.run_daily_research the steps come in the order
\* collect, analyse, create report, each at most once in a run; when the
\* sources return no item at all the run ends without a call of the language
\* model and without a document; a document is never created before the
\* analysis has returned.
C28_CollectAnalyseReportInOrder ==
    [][ bot = "MarketResearchBot" =>
          /\ Collect =>
                /\ all_data = <<>> /\ analysis = "" /\ ~doc_id.some
                /\ console \cap DocMessages = {}
                /\ all_data' = <<>> => pc' = "done"
          /\ Analyze =>
                /\ all_data # <<>> /\ analysis = "" /\ ~doc_id.some
                /\ console \cap DocMessages = {}
          /\ CreateDoc =>
                /\ all_data # <<>> /\ analysis \in AnalysisTexts /\ ~doc_id.some
                /\ console \cap DocMessages = {}
          /\ all_data' = <<>> =>
                /\ analysis' = "" /\ ~doc_id'.some
                /\ console' \cap DocMessages = {}
                /\ pc' \in { "start", "collect", "done" }
          /\ doc_id'.some => analysis' \in AnalysisTexts ]_vars

\* a run of MarketResearchBot whose sources gave nothing has ended
C28_Witness ==
    /\ bot = "MarketResearchBot"
    /\ pc = "done"
    /\ all_data = <<>>
    /\ "No data collected. Exiting." \in console
    /\ analysis = ""
    /\ ~doc_id.some

InstagramItems(data) ==
    { i \in 1..Len(data) : data[i].source = "Instagram Trends" }

\* C29: in DropshippingTrendBot.run_daily_research the collected data is never
\* empty, the Instagram step giving exactly one item every time: the run never
\* takes the "No data collected" exit and calls the analysis in every run,
\* also when every other source gives nothing.
C29_InstagramItemAlwaysCollected ==
    [][ bot = "DropshippingTrendBot" =>
          /\ Collect =>
                /\ Len(all_data') >= 1
                /\ InstagramItems(all_data') = { Len(all_data') }
                /\ pc' = "analyze"
          /\ "No data collected. Exiting." \notin console'
          /\ pc' = "analyze" => Len(all_data') >= 1
          /\ pc' \in { "report", "report_raised", "finish", "done" } =>
                analysis' \in AnalysisTexts ]_vars

\* a run of DropshippingTrendBot whose other sources gave nothing has called
\* the analysis
C29_Witness ==
    /\ bot = "DropshippingTrendBot"
    /\ pc = "report"
    /\ Len(all_data) = 1
    /\ all_data[1].source = "Instagram Trends"
    /\ analysis \in AnalysisTexts

(***************************************************************************)
(* Claims about the row a reviewer action writes (specification            *)
(* SpecAppend)                                                             *)
(***************************************************************************)
\* what a row holds apart from the two cells the dashboard writes
RecordIn(row) == [ row EXCEPT !.status = "", !.notes = "" ]

\* C30: for every choice of filters and for the sorted display order, a
\* reviewer action on a displayed record writes to the sheet row that held
\* this record when the table was loaded (row = position in the loaded table
\* + 2) and to no other row, also when a bot run has appended rows between
\* the load and the action.
C30_ActionWritesLoadedRow ==
    [][ \A r \in Reviewers :
          Click(r) =>
            /\ RowOf(r) <= view[r].total
            /\ view[r].total <= Len(sheet)
            /\ RecordIn(sheet[RowOf(r)]) = RecordIn(view[r].row)
            /\ last_call'.row_number = view[r].idx
            /\ Len(sheet') = Len(sheet)
            /\ \A i \in 1..Len(sheet) : i # RowOf(r) => sheet'[i] = sheet[i]
            /\ RecordIn(sheet'[RowOf(r)]) = RecordIn(view[r].row)
            /\ sheet'[RowOf(r)].status = last_call'.new_status ]_vars

\* the reviewer has approved the first row of a table that had one row when
\* it was loaded and has two now
C30_Witness ==
    /\ last_call.made
    /\ last_call.row_number = 0
    /\ last_call.rows_loaded = 1
    /\ last_call.new_status = "approved"
    /\ Len(sheet) = 2
    /\ sheet[1].status = "approved"
    /\ sheet[2].status = "pending"

====
